---- MODULE Spec2Model ----
(***************************************************************************)
(* Model of the browser agent's orchestration engine:                      *)
(*   ContextManager (message log, sliding window, compression),            *)
(*   SecurityGuard.checkAction, ToolExecutor.execute and                   *)
(*   BrowserAgent.run / isStuck / generateFinalSummary.                    *)
(* The LLM, the browser driver and the user are the environment: their     *)
(* answers are drawn from the small sets held in `env`.                    *)
(***************************************************************************)
EXTENDS Integers, Sequences, FiniteSets, TLC

VARIABLES
    env,                \* name of the environment the agent runs against (LLM, pages, user)
    maxIterations,      \* BrowserAgent.maxIterations
    pc,                 \* position of run(): idle, loop, observe, think, act, calls, catch, after, returned
    iteration,          \* loop counter of run()
    isDone,             \* BrowserAgent.isDone
    summary,            \* BrowserAgent.summary
    consecutiveFailures,\* run() local
    textOnlyRetries,    \* run() local
    recentActions,      \* run() local: Array<{action, url}>
    messages,           \* ContextManager.messages
    actionHistory,      \* ContextManager.actionHistory
    response,           \* the LLM response being acted upon
    callIdx,            \* index of the tool call of `response` being processed (1-based)
    tabs,               \* number of non-closed pages of the browser context
    url,                \* URL of the active page
    llmCalls,           \* number of llm.chat calls of this run
    lastChat,           \* arguments of the most recent llm.chat call
    returned,           \* the value run() returned ("pending" while it runs)
    trace,              \* what the most recent step of run() did (observation only)
    stuckIn,            \* input of the isStuck evaluation of the pure-function specification
    guardIn,            \* input of the checkAction evaluation of the pure-function specification
    actIn,              \* a BrowserActions operation, its arguments, the driver's behaviour and its result
    truncIn,            \* a text and a token budget given to truncateToTokenBudget, and its result
    extIn,              \* an execution of PageExtractor.extract
    selIn               \* a selector given to resolveLocator, and what it did

vars == <<env, maxIterations, pc, iteration, isDone, summary, consecutiveFailures,
          textOnlyRetries, recentActions, messages, actionHistory, response, callIdx,
          tabs, url, llmCalls, lastChat, returned, trace, stuckIn, guardIn,
          actIn, truncIn, extIn, selIn>>

-----------------------------------------------------------------------------
(* Program constants *)

maxHistoryMessages == 10
tokenBudget == 8000
RecentActionsSize == 10
MaxConsecutiveFailures == 3
MaxTextOnlyRetries == 2
LongResult == 1000
WaitCap == 10000

(* Bounds of the model *)

StuckIters == 5      \* iterations of a run in the loop-detection environment
CtxIters == 4        \* iterations of a run in the context-window environment
CtxCalls == 3        \* tool calls per response in the context-window environment
GuardIters == 2      \* iterations of a run in the security environment
StuckLen == 10       \* longest RecentActions enumerated for isStuck as a function
MaxLines == 3        \* most lines of a text given to truncateToTokenBudget
OscIters == 3        \* iterations of a run in the oscillation environment
TextIters == 3       \* iterations of a run in the text-only environment
LiveIters == 3       \* iterations of a run in the termination environment
RingIters == 3       \* iterations of a run in the environment of the long run of calls
MaxTokens == 4       \* most pieces a selector given to resolveLocator is put together from

-----------------------------------------------------------------------------
(* Strings.  A string is modelled by what the code reads from it: the      *)
(* words it contains (for includes / RegExp.test) and its length.          *)

Lower(w) ==
    CASE w = "Delete" -> "delete"
      [] w = "Enter" -> "enter"
      [] w = "Checkout" -> "checkout"
      [] OTHER -> w

LowerAll(ws) == {Lower(w) : w \in ws}

\* JSON arguments of a tool call: whether JSON.parse accepts them, the words
\* the text contains, its length, and the value of the "summary" member
\* ("none" when absent, "" when empty).
Args(valid, words, summ, len) ==
    [valid |-> valid, words |-> words, summary |-> summ, len |-> len]

NoSummary == "none"

ToolCall(id, name, args) == [id |-> id, name |-> name, args |-> args]

\* `${toolCall.function.name}(${toolCall.function.arguments})`
toolDesc(tc) == <<tc.name, tc.args>>

NoResponse == [content |-> "null", hasQuestion |-> FALSE, hasKeyword |-> FALSE,
               toolCalls |-> <<>>, finishReason |-> "null", throws |-> FALSE]

-----------------------------------------------------------------------------
(* ContextManager *)

Msg(role, kind, step, len, calls, id) ==
    [role |-> role, kind |-> kind, step |-> step, len |-> len, calls |-> calls, id |-> id]

CeilDiv4(n) == (n + 3) \div 4

RECURSIVE SumCalls(_)
SumCalls(calls) ==
    IF calls = <<>> THEN 0
    ELSE CeilDiv4(Head(calls).args.len) + 10 + SumCalls(Tail(calls))

\* estimateTokens: ceil(content.length / 4) per message with content, plus
\* ceil(arguments.length / 4) + 10 per tool call.
RECURSIVE estimateTokens(_)
estimateTokens(msgs) ==
    IF msgs = <<>> THEN 0
    ELSE (IF Head(msgs).len > 0 THEN CeilDiv4(Head(msgs).len) ELSE 0)
         + SumCalls(Head(msgs).calls)
         + estimateTokens(Tail(msgs))

\* Array.prototype.slice(start) with a 0-based start.
Slice(msgs, start) == SubSeq(msgs, start + 1, Len(msgs))

\* Mutant: the window starts at the target index whatever message is there.
findSafeWindowStartNoWalk(msgs, start) == start

\* findSafeWindowStart: 0-based index; walks back while the message at
\* `start` is a tool message and start > 0.
RECURSIVE findSafeWindowStart(_, _)
findSafeWindowStart(msgs, start) ==
    IF start > 0 /\ msgs[start + 1].role = "tool"
    THEN findSafeWindowStart(msgs, start - 1)
    ELSE start

\* Mutant: the last maxHistoryMessages messages, wherever that window starts.
getRecentMessagesLastN(msgs) ==
    IF Len(msgs) <= maxHistoryMessages THEN msgs
    ELSE Slice(msgs, Len(msgs) - maxHistoryMessages)

getRecentMessages(msgs) ==
    IF Len(msgs) <= maxHistoryMessages THEN msgs
    ELSE Slice(msgs, findSafeWindowStart(msgs, Len(msgs) - maxHistoryMessages))

compressIfNeeded(msgs) ==
    IF estimateTokens(msgs) > tokenBudget /\ Len(msgs) > maxHistoryMessages
    THEN Slice(msgs, findSafeWindowStart(msgs, Len(msgs) - maxHistoryMessages))
    ELSE msgs

SystemMessage == Msg("system", "system", 0, 4000, <<>>, 0)

\* Mutant: the task is replaced, the log and the history are kept.
setTaskOnly(msgs, hist) == [messages |-> msgs, actionHistory |-> hist]

\* setTask(task): the message log and the action history start empty.
setTask(msgs, hist) == [messages |-> <<>>, actionHistory |-> <<>>]

\* summarizeActions(actionHistory) as a user message
SummaryMessage(hist) == Msg("user", "summary", 0, 30 * Len(hist), <<>>, 0)

\* Mutant: the summary of the action history is put after the recent messages.
getMessagesSummaryLast(msgs, hist) ==
    <<SystemMessage>>
    \o getRecentMessages(msgs)
    \o (IF Len(hist) > 0 THEN <<SummaryMessage(hist)>> ELSE <<>>)

getMessages(msgs, hist) ==
    <<SystemMessage>>
    \o (IF Len(hist) > 0 THEN <<SummaryMessage(hist)>> ELSE <<>>)
    \o getRecentMessages(msgs)

addObservation(msgs, m) == compressIfNeeded(Append(msgs, m))

addAssistantMessage(msgs, len, calls) ==
    Append(msgs, Msg("assistant", "assistant", 0, len, calls, 0))

\* The message addToolResult pushes; `result` is [defined, len].
ToolResultMessage(tc, result) ==
    Msg("tool", result.text, 0, IF result.defined THEN result.len ELSE 0, <<>>, tc.id)

\* addToolResult reads result.length after the push: an undefined result
\* makes it throw a TypeError after the message was pushed and before the
\* ActionHistory entry is.
addToolResultThrows(result) == ~result.defined

summaryLen(result) == IF result.len > LongResult THEN 300 ELSE 100

ActionHistoryEntry(tc, result) ==
    [id |-> tc.id, name |-> tc.name,
     prefix |-> IF result.len < summaryLen(result) THEN result.len ELSE summaryLen(result)]

\* Mutant: the first message whose role is user is removed.
RECURSIVE removeFirstObservation(_)
removeFirstObservation(msgs) ==
    IF msgs = <<>> THEN msgs
    ELSE IF Head(msgs).role = "user" THEN Tail(msgs)
    ELSE <<Head(msgs)>> \o removeFirstObservation(Tail(msgs))

\* removeLastObservation: remove the last message whose role is user.
RECURSIVE removeLastObservation(_)
removeLastObservation(msgs) ==
    IF msgs = <<>> THEN msgs
    ELSE IF msgs[Len(msgs)].role = "user" THEN SubSeq(msgs, 1, Len(msgs) - 1)
    ELSE Append(removeLastObservation(SubSeq(msgs, 1, Len(msgs) - 1)), msgs[Len(msgs)])

-----------------------------------------------------------------------------
(* SecurityGuard *)

\* s.includes(w): the text with word set `ws` contains w when w is one of
\* its words or a substring of one of them.
SubstringOf(w, x) ==
    \/ w = x
    \/ <<w, x>> \in {<<"pay", "payment">>, <<"delete", "delete account">>,
                     <<"sign", "design">>, <<"order", "reorder">>}

Includes(ws, w) == \E x \in ws : SubstringOf(w, x)

MetaTools == {"read_page", "scroll", "wait", "ask_user", "done", "hover", "go_back", "navigate"}

\* DESTRUCTIVE_KEYWORDS (the Russian entries are written in Latin letters)
DESTRUCTIVE_KEYWORDS ==
    {"udalit", "udalenie", "oplatit", "oplata", "otpravit", "podtverdit",
     "kupit", "zakazat", "otmenit", "otpisatsya", "perevesti", "perevod",
     "podpisat", "soglasitsya", "udalit akkaunt", "sbrosit",
     "delete", "remove", "pay", "payment", "checkout", "submit", "send",
     "purchase", "buy", "order", "confirm", "cancel", "unsubscribe",
     "transfer", "sign", "agree", "delete account", "reset"}

\* DESTRUCTIVE_TOOL_PATTERNS: alternatives of each case-insensitive RegExp
ClickPattern == {"udalit", "delete", "pay", "oplat", "submit", "otprav", "kupit", "buy",
                 "checkout", "zakaz", "order", "confirm", "podtverd"}
EnterPattern == {"enter"}

DESTRUCTIVE_TOOL_PATTERNS ==
    {[tool |-> "click", argPattern |-> ClickPattern],
     [tool |-> "press_key", argPattern |-> EnterPattern]}

\* RegExp.test with the i flag
Test(pattern, ws) == \E alt \in pattern : Includes(LowerAll(ws), alt)

StrongContext == {"checkout", "oplat", "korzin", "udalen", "podtverzhd"}

isDestructiveAction(toolName, argsWords, contextWords) ==
    \/ \E p \in DESTRUCTIVE_TOOL_PATTERNS : toolName = p.tool /\ Test(p.argPattern, argsWords)
    \/ /\ toolName \in {"click", "type", "press_key", "select_option"}
       /\ \E keyword \in DESTRUCTIVE_KEYWORDS :
            \/ Includes(LowerAll(argsWords), keyword)
            \/ /\ Includes(LowerAll(contextWords), keyword)
               /\ toolName = "click"
               /\ \E c \in StrongContext : Includes(LowerAll(contextWords), c)

\* answer.toLowerCase().startsWith('y'); an answer is a sequence of characters
LowerChar(c) == IF c = "Y" THEN "y" ELSE IF c = "N" THEN "n" ELSE c

AnswerAllows(answer) == Len(answer) > 0 /\ LowerChar(answer[1]) = "y"

\* What the confirm callback does when it is invoked: it resolves to a text
\* or rejects.
Answer(text) == [rejects |-> FALSE, text |-> text]
Rejects == [rejects |-> TRUE, text |-> <<>>]

\* Mutant: the call is classified by its arguments alone, whatever the tool.
checkActionByArgs(tc, contextWords, answer) ==
    IF \E keyword \in DESTRUCTIVE_KEYWORDS : Includes(LowerAll(tc.args.words), keyword)
    THEN IF answer.rejects
         THEN [allowed |-> FALSE, asked |-> TRUE, throws |-> TRUE]
         ELSE [allowed |-> AnswerAllows(answer.text), asked |-> TRUE, throws |-> FALSE]
    ELSE [allowed |-> TRUE, asked |-> FALSE, throws |-> FALSE]

\* Mutant: only the answer 'y' itself grants approval.
checkActionExactY(tc, contextWords, answer) ==
    IF tc.name \in MetaTools
    THEN [allowed |-> TRUE, asked |-> FALSE, throws |-> FALSE]
    ELSE IF isDestructiveAction(tc.name, tc.args.words, contextWords)
    THEN IF answer.rejects
         THEN [allowed |-> FALSE, asked |-> TRUE, throws |-> TRUE]
         ELSE [allowed |-> answer.text = <<"y">>, asked |-> TRUE, throws |-> FALSE]
    ELSE [allowed |-> TRUE, asked |-> FALSE, throws |-> FALSE]

\* checkAction(toolCall, pageContext) for a user who would answer `answer`.
\* Returns whether the confirm callback was invoked, whether the call threw,
\* and the value returned.
checkAction(tc, contextWords, answer) ==
    IF tc.name \in MetaTools
    THEN [allowed |-> TRUE, asked |-> FALSE, throws |-> FALSE]
    ELSE IF isDestructiveAction(tc.name, tc.args.words, contextWords)
    THEN IF answer.rejects
         THEN [allowed |-> FALSE, asked |-> TRUE, throws |-> TRUE]
         ELSE [allowed |-> AnswerAllows(answer.text), asked |-> TRUE, throws |-> FALSE]
    ELSE [allowed |-> TRUE, asked |-> FALSE, throws |-> FALSE]

-----------------------------------------------------------------------------
(* BrowserAgent.isStuck *)

Entry(action, u) == [action |-> action, url |-> u]

\* Mutant: exact repetition needs three recorded entries.
ExactRepetitionOffByOne(recent, currentAction, currentUrl) ==
    /\ Len(recent) >= 3
    /\ recent[Len(recent)].action = currentAction
    /\ recent[Len(recent)].url = currentUrl
    /\ recent[Len(recent) - 1].action = currentAction
    /\ recent[Len(recent) - 1].url = currentUrl

\* Check 1: the last two entries equal the proposed action and URL.
ExactRepetition(recent, currentAction, currentUrl) ==
    /\ Len(recent) >= 2
    /\ recent[Len(recent)].action = currentAction
    /\ recent[Len(recent)].url = currentUrl
    /\ recent[Len(recent) - 1].action = currentAction
    /\ recent[Len(recent) - 1].url = currentUrl

\* Mutant: every entry at currentUrl counts as a visit.
RECURSIVE CountEntries(_, _, _, _)
CountEntries(allActions, i, visits, currentUrl) ==
    IF i > Len(allActions) THEN visits
    ELSE CountEntries(allActions, i + 1,
            IF allActions[i].url = currentUrl THEN visits + 1 ELSE visits,
            currentUrl)

\* The loop of check 2: i runs over allActions (1-based here), visits is
\* incremented when entry i is at currentUrl and is first or follows an
\* entry at another URL.
RECURSIVE CountVisits(_, _, _, _)
CountVisits(allActions, i, visits, currentUrl) ==
    IF i > Len(allActions) THEN visits
    ELSE CountVisits(allActions, i + 1,
            IF /\ allActions[i].url = currentUrl
               /\ (i = 1 \/ allActions[i - 1].url # currentUrl)
            THEN visits + 1 ELSE visits,
            currentUrl)

isStuck(recent, currentAction, currentUrl) ==
    \/ ExactRepetition(recent, currentAction, currentUrl)
    \/ CountVisits(Append(recent, Entry(currentAction, currentUrl)), 1, 0, currentUrl) >= 3

\* Mutant: the entry is pushed and nothing is shifted out.
pushRecentNoShift(recent, e) == Append(recent, e)

\* recentActions.push(...); if (recentActions.length > 10) recentActions.shift()
pushRecent(recent, e) ==
    IF Len(recent) + 1 > RecentActionsSize THEN Tail(Append(recent, e)) ELSE Append(recent, e)

-----------------------------------------------------------------------------
(* ToolExecutor.execute *)

BrowserActionTools ==
    {"navigate", "click", "type", "scroll", "go_back", "select_option", "press_key",
     "hover", "wait"}

KnownTools == BrowserActionTools \cup {"read_page", "ask_user", "done"}

\* A result string: which text it is, and its length; `defined` is FALSE
\* for the value undefined.
Result(defined, text, len) == [defined |-> defined, text |-> text, len |-> len]

ExecResult(result, done, doneSummary, guard, asked, allowed, op, throws) ==
    [result |-> result, isDone |-> done, doneSummary |-> doneSummary,
     guard |-> guard, asked |-> asked, allowed |-> allowed, op |-> op, throws |-> throws]

Undefined == Result(FALSE, "undefined", 0)

\* Mutant: the operation is dispatched whatever checkAction returned.
executeUnguarded(tc, contextWords, answer, len) ==
    LET chk == checkAction(tc, contextWords, answer) IN
    ExecResult(Result(TRUE, "outcome", len), tc.name = "done", tc.args.summary,
               TRUE, chk.asked, chk.allowed,
               IF tc.name \in BrowserActionTools THEN tc.name ELSE "none", chk.throws)

\* execute(toolCall, page): `contextWords` is what getPageContextForSecurity
\* returned, `answer` what the user would answer to a confirmation and
\* `len` the length of the string the dispatched operation returns.
\* guard: checkAction was called; allowed: it returned true; op: the
\* BrowserActions operation dispatched ("none" when there is none);
\* throws: execute threw (the confirm callback rejected).
execute(tc, contextWords, answer, len) ==
    IF ~tc.args.valid
    THEN ExecResult(Result(TRUE, "invalid_json", 60), FALSE, NoSummary,
                    FALSE, FALSE, FALSE, "none", FALSE)
    ELSE LET chk == checkAction(tc, contextWords, answer) IN
         IF chk.throws
         THEN ExecResult(Undefined, FALSE, NoSummary, TRUE, chk.asked, FALSE, "none", TRUE)
         ELSE IF ~chk.allowed
         THEN ExecResult(Result(TRUE, "blocked", 86), FALSE, NoSummary,
                         TRUE, chk.asked, FALSE, "none", FALSE)
         ELSE IF tc.name \in BrowserActionTools
         THEN ExecResult(Result(TRUE, "outcome", len), FALSE, NoSummary,
                         TRUE, chk.asked, TRUE, tc.name, FALSE)
         ELSE IF tc.name = "read_page"
         THEN ExecResult(Result(TRUE, "page", len), FALSE, NoSummary,
                         TRUE, chk.asked, TRUE, "none", FALSE)
         ELSE IF tc.name = "ask_user"
         THEN ExecResult(Result(TRUE, "answer", len), FALSE, NoSummary,
                         TRUE, chk.asked, TRUE, "none", FALSE)
         ELSE IF tc.name = "done"
         THEN ExecResult(IF tc.args.summary = NoSummary THEN Undefined
                         ELSE Result(TRUE, "summary",
                                     IF tc.args.summary = "" THEN 0 ELSE 40),
                         TRUE, tc.args.summary, TRUE, chk.asked, TRUE, "none", FALSE)
         ELSE ExecResult(Result(TRUE, "unknown_tool", 120), FALSE, NoSummary,
                         TRUE, chk.asked, TRUE, "none", FALSE)

-----------------------------------------------------------------------------
(* BrowserActions.  A driver call either succeeds or fails with an error    *)
(* whose message the operation may inspect; `d` gives the outcome of each   *)
(* driver call an operation can make.                                       *)

\* The two schemes navigate looks for, character by character
SchemeHttp == <<"h", "t", "t", "p", ":", "/", "/">>
SchemeHttps == <<"h", "t", "t", "p", "s", ":", "/", "/">>

\* String.prototype.startsWith
StartsWith(s, prefix) == Len(s) >= Len(prefix) /\ SubSeq(s, 1, Len(prefix)) = prefix

NoUrl == <<"-">>

\* No duration: the operation did not sleep at the caller's request.
NoWait == "none"

\* What an operation did: whether it threw to its caller, which outcome
\* string it returned, the URL the string names and the URL handed to
\* page.goto (NoUrl when there is none), the duration handed to
\* page.waitForTimeout by wait and the duration its string reports (NoWait
\* for the other operations), and the number of clicks click delivered to
\* the element.
ActionResult(throws, text, named, goto) ==
    [throws |-> throws, text |-> text, named |-> named, goto |-> goto,
     slept |-> NoWait, reported |-> NoWait, clicks |-> 0]

Said(text) == ActionResult(FALSE, text, NoUrl, NoUrl)

Thrown == ActionResult(TRUE, "none", NoUrl, NoUrl)

\* Outcomes of the driver calls of one operation: `first` is the outcome of
\* the main call ("ok" or the kind of error message), `after` of the calls
\* that follow it in the same try block, `retry` of the first fallback call,
\* `evaluate` and `last` of the later fallbacks of click, `moved` and
\* `moved2` whether the page URL changed after a fallback click.
Driver(first, after, retry, evaluate, last, moved, moved2) ==
    [first |-> first, after |-> after, retry |-> retry, evaluate |-> evaluate,
     last |-> last, moved |-> moved, moved2 |-> moved2]

\* A selector: whether resolveLocator rejects it as a tree path, and whether
\* its text contains "button".
Selector(rejected, button) == [rejected |-> rejected, button |-> button]

\* resolveLocator on the characters of the selector.  Letters, digits and the
\* underscore are the word characters of a RegExp; \s is a blank.
UpperChar(c) ==
    CASE c = "r" -> "R" [] c = "o" -> "O" [] c = "t" -> "T" [] c = "d" -> "D"
      [] c = "x" -> "X" [] OTHER -> c

IsLetter(c) == UpperChar(c) \in {"R", "O", "T", "D", "X"}

IsDigit(c) == c \in {"1", "2"}

IsWordChar(c) == IsLetter(c) \/ IsDigit(c) \/ c = "_"

IsBlank(c) == c = " "

\* \b between the characters i - 1 and i of s (1-based; i = Len(s) + 1 is
\* the end of s)
WordBoundary(s, i) ==
    LET before == i > 1 /\ IsWordChar(s[i - 1])
        after == i <= Len(s) /\ IsWordChar(s[i])
    IN before # after

\* selector.replace(/^-\s+/, '')
RECURSIVE DropBlanks(_)
DropBlanks(s) == IF s # <<>> /\ IsBlank(Head(s)) THEN DropBlanks(Tail(s)) ELSE s

stripListPrefix(s) ==
    IF Len(s) >= 2 /\ s[1] = "-" /\ IsBlank(s[2]) THEN DropBlanks(Tail(s)) ELSE s

\* /\bROOT\b/i.test(s)
testRoot(s) ==
    \E i \in 1..(Len(s) - 3) :
        /\ [k \in 1..4 |-> UpperChar(s[i + k - 1])] = <<"R", "O", "O", "T">>
        /\ WordBoundary(s, i)
        /\ WordBoundary(s, i + 4)

\* /^[A-Z]+\s*>\s*[A-Z]+/i.test(s)
testPath(s) ==
    \E a \in 1..Len(s) : \E b \in a..Len(s) : \E c \in (b + 1)..Len(s) :
        /\ \A k \in 1..a : IsLetter(s[k])
        /\ \A k \in (a + 1)..b : IsBlank(s[k])
        /\ b + 1 <= Len(s) /\ s[b + 1] = ">"
        /\ \A k \in (b + 2)..c : IsBlank(s[k])
        /\ c + 1 <= Len(s) /\ IsLetter(s[c + 1])

\* /\b\d+\b/.test(s)
testNumber(s) ==
    \E i \in 1..Len(s) : \E j \in i..Len(s) :
        /\ \A k \in i..j : IsDigit(s[k])
        /\ WordBoundary(s, i)
        /\ WordBoundary(s, j + 1)

\* Mutant: only the ROOT test rejects a selector.
isTreePathRootOnly(s) == testRoot(s)

\* The condition under which resolveLocator throws the tree-path error
isTreePath(s) == testRoot(s) \/ (testPath(s) /\ testNumber(s))

\* resolveLocator(selector): it throws the tree-path error, or returns the
\* locator one of the page's locator methods (getByRole, getByText,
\* getByLabel, getByPlaceholder, locator) gave it.
resolveLocator(selector) ==
    IF isTreePath(stripListPrefix(selector))
    THEN [throws |-> TRUE, error |-> "tree hierarchy path", locatorCalls |-> 0]
    ELSE [throws |-> FALSE, error |-> "none", locatorCalls |-> 1]

\* The URL handed to page.goto: 'https://' is put in front of a url that
\* starts with neither scheme.
gotoUrl(u) ==
    IF ~StartsWith(u, SchemeHttp) /\ ~StartsWith(u, SchemeHttps)
    THEN SchemeHttps \o u
    ELSE u

\* Mutant: the url is handed to page.goto as it was given.
navigateAsGiven(u, d) ==
    IF d.first # "ok" THEN ActionResult(FALSE, "Navigation failed", NoUrl, u)
    ELSE IF d.after # "ok" THEN ActionResult(FALSE, "Navigation failed", NoUrl, u)
    ELSE ActionResult(FALSE, "Navigated to", u, u)

navigate(u, d) ==
    IF d.first # "ok" THEN ActionResult(FALSE, "Navigation failed", NoUrl, gotoUrl(u))
    ELSE IF d.after # "ok" THEN ActionResult(FALSE, "Navigation failed", NoUrl, gotoUrl(u))
    ELSE ActionResult(FALSE, "Navigated to", gotoUrl(u), gotoUrl(u))

\* The Timeout branch of click: dispatchEvent, then evaluate, then
\* first().dispatchEvent as the last resort.
clickDispatch(sel, d) ==
    IF d.retry = "ok" /\ d.moved THEN Said("Clicked (dispatchEvent fallback)")
    ELSE IF d.retry = "ok" /\ d.evaluate = "ok"
    THEN IF d.moved2 THEN Said("Clicked (evaluate fallback)")
         ELSE IF sel.button THEN Said("Clicked (dispatchEvent on button)")
         ELSE Said("Click dispatched but the page did NOT change")
    ELSE IF d.last = "ok"
    THEN IF sel.button \/ d.moved2 THEN Said("Clicked (dispatchEvent on first match)")
         ELSE Said("Click dispatched but the page did NOT change")
    ELSE Said("Click failed")

\* Mutant: in the Timeout branch the first fallback is a forced click that
\* is followed by the dispatched event.
clicksDeliveredForced(sel, d) ==
    IF sel.rejected THEN 0
    ELSE IF d.first = "ok" THEN 1
    ELSE IF d.first = "strict mode violation" THEN (IF d.retry = "ok" THEN 1 ELSE 0)
    ELSE IF d.first = "Timeout"
    THEN IF d.retry = "ok" /\ d.moved THEN 2
         ELSE IF d.retry = "ok" /\ d.evaluate = "ok" THEN 3
         ELSE (IF d.retry = "ok" THEN 2 ELSE 0) + (IF d.last = "ok" THEN 1 ELSE 0)
    ELSE 0

\* The clicks a call of click delivers to the element: locator.click and
\* first().click when they resolve, and in the Timeout branch
\* dispatchEvent('click'), then el.click() when the URL did not change, then
\* first().dispatchEvent('click') when one of the two threw.
clicksDelivered(sel, d) ==
    IF sel.rejected THEN 0
    ELSE IF d.first = "ok" THEN 1
    ELSE IF d.first = "strict mode violation" THEN (IF d.retry = "ok" THEN 1 ELSE 0)
    ELSE IF d.first = "Timeout"
    THEN IF d.retry = "ok" /\ d.moved THEN 1
         ELSE IF d.retry = "ok" /\ d.evaluate = "ok" THEN 2
         ELSE (IF d.retry = "ok" THEN 1 ELSE 0) + (IF d.last = "ok" THEN 1 ELSE 0)
    ELSE 0

click(sel, d) ==
    LET said ==
          IF sel.rejected THEN Said("Click failed")
          ELSE IF d.first = "ok"
          THEN IF d.after = "ok" THEN Said("Clicked") ELSE Said("Click failed")
          ELSE IF d.first = "strict mode violation"
          THEN IF d.retry = "ok" THEN Said("Clicked on the FIRST match")
               ELSE Said("Click failed (strict mode, first() also failed)")
          ELSE IF d.first = "Timeout" THEN clickDispatch(sel, d)
          ELSE Said("Click failed")
    IN [said EXCEPT !.clicks = clicksDelivered(sel, d)]

type(sel, d) ==
    IF sel.rejected THEN Said("Type failed")
    ELSE IF d.first = "ok" THEN Said("Typed")
    ELSE IF d.first = "strict mode violation"
    THEN IF d.retry = "ok" THEN Said("Typed into the FIRST match")
         ELSE Said("Type failed (strict mode, first() also failed)")
    ELSE IF d.retry = "ok" THEN Said("Typed (via keyboard)")
    ELSE Said("Type failed")

scroll(d) ==
    IF d.first = "ok" /\ d.after = "ok" THEN Said("Scrolled") ELSE Said("Scroll failed")

goBack(d) ==
    IF d.first # "ok" \/ d.after # "ok" THEN Said("Go back failed")
    ELSE IF ~d.moved THEN Said("go_back did NOT work")
    ELSE Said("Navigated back")

selectOption(sel, d) ==
    IF sel.rejected \/ d.first # "ok" THEN Said("Select option failed")
    ELSE Said("Selected")

pressKey(d) ==
    IF d.first = "ok" /\ d.after = "ok" THEN Said("Pressed key") ELSE Said("Press key failed")

hover(sel, d) ==
    IF sel.rejected THEN Said("Hover failed")
    ELSE IF d.first = "ok" THEN Said("Hovered")
    ELSE IF d.first = "strict mode violation"
    THEN IF d.retry = "ok" THEN Said("Hovered over the FIRST match")
         ELSE Said("Hover failed (strict mode, first() also failed)")
    ELSE Said("Hover failed")

\* Math.min
Min(a, b) == IF a < b THEN a ELSE b

\* Mutant: the duration is handed to the driver as it was given.
waitUncapped(ms, d) ==
    IF d.first = "ok" THEN [Said("Waited") EXCEPT !.slept = ms, !.reported = ms]
    ELSE [Thrown EXCEPT !.slept = ms]

\* wait(ms): cappedMs is handed to page.waitForTimeout and reported.  wait
\* has no try block: a failing page.waitForTimeout rejects the promise wait
\* returned.
wait(ms, d) ==
    LET cappedMs == Min(ms, WaitCap) IN
    IF d.first = "ok" THEN [Said("Waited") EXCEPT !.slept = cappedMs, !.reported = cappedMs]
    ELSE [Thrown EXCEPT !.slept = cappedMs]

screenshot(d) == IF d.first = "ok" THEN Said("Screenshot taken") ELSE Said("Screenshot failed")

Operations ==
    {"navigate", "click", "type", "scroll", "goBack", "selectOption", "pressKey", "hover",
     "wait", "screenshot"}

\* The operation `op` on the arguments u (navigate), sel (the operations
\* that take a selector) and ms (wait) when the driver behaves as d.
perform(op, u, sel, ms, d) ==
    CASE op = "navigate" -> navigate(u, d)
      [] op = "click" -> click(sel, d)
      [] op = "type" -> type(sel, d)
      [] op = "scroll" -> scroll(d)
      [] op = "goBack" -> goBack(d)
      [] op = "selectOption" -> selectOption(sel, d)
      [] op = "pressKey" -> pressKey(d)
      [] op = "hover" -> hover(sel, d)
      [] op = "wait" -> wait(ms, d)
      [] op = "screenshot" -> screenshot(d)

-----------------------------------------------------------------------------
(* PageExtractor.  A text is the sequence of the lengths of its lines (the  *)
(* text split at "\n"): <<0>> is the empty text, <<3, 0>> is "abc\n".       *)

SentinelLen == 43

RECURSIVE SumLens(_)
SumLens(lines) == IF lines = <<>> THEN 0 ELSE Head(lines) + SumLens(Tail(lines))

\* content.length: the characters of the lines and one "\n" between two lines
TextLen(lines) == SumLens(lines) + Len(lines) - 1

\* content.slice(0, n) for 0 <= n
RECURSIVE SliceText(_, _)
SliceText(lines, n) ==
    IF Len(lines) = 1 \/ n <= Head(lines)
    THEN << IF n < Head(lines) THEN n ELSE Head(lines) >>
    ELSE <<Head(lines)>> \o SliceText(Tail(lines), n - Head(lines) - 1)

\* content.lastIndexOf('\n'): the 0-based index of the last newline, -1 when
\* there is none
LastNewline(lines) ==
    IF Len(lines) = 1 THEN -1 ELSE TextLen(lines) - lines[Len(lines)] - 1

\* The text truncateToTokenBudget returns: `lines` and, when `sentinel`, the
\* truncation notice after them.
Truncated(lines, sentinel) == [lines |-> lines, sentinel |-> sentinel]

OutLen(out) == TextLen(out.lines) + (IF out.sentinel THEN SentinelLen ELSE 0)

\* Mutant: the text is always cut at maxChars.
truncateHard(content, budget) ==
    IF TextLen(content) <= budget * 4 THEN Truncated(content, FALSE)
    ELSE Truncated(SliceText(content, budget * 4), TRUE)

truncateToTokenBudget(content, budget) ==
    LET maxChars == budget * 4 IN
    IF TextLen(content) <= maxChars THEN Truncated(content, FALSE)
    ELSE LET truncated == SliceText(content, maxChars)
             lastNewline == LastNewline(truncated)
             cleanTruncated == IF lastNewline > 0 THEN SliceText(truncated, lastNewline)
                               ELSE truncated
         IN Truncated(cleanTruncated, TRUE)

\* extract.  Each driver step is awaited in a race with a soft timeout
\* (withTimeout); its outcome is "ok", "empty" (ariaSnapshot resolved to ''),
\* "reject" or "timeout" (the timer won: the fallback value is used and the
\* driver call is left running).
ExtractSteps == <<"wait", "title", "aria", "fallback", "scroll">>

StepOutcomes(step) ==
    IF step = "aria" THEN {"ok", "empty", "reject", "timeout"} ELSE {"ok", "reject", "timeout"}

Extraction(at, started, pending, title, tree, scrollInfo, result) ==
    [at |-> at, started |-> started, pending |-> pending, title |-> title, tree |-> tree,
     scrollInfo |-> scrollInfo, result |-> result]

Extracting == Extraction("wait", FALSE, {}, "none", "none", "none", "pending")

\* Mutant: an error of a driver step is passed on to the caller of extract.
outerRethrow == "rejected"

\* catch (error) of extract: the error is narrated.
outerCatch == "Error extracting page content"

\* What extract does when the race of step x.at settles with `out`.
extractNext(x, out) ==
    LET left == IF out = "timeout" THEN x.pending \cup {x.at} ELSE x.pending
        y == [x EXCEPT !.started = FALSE, !.pending = left]
    IN
    CASE x.at = "wait" -> [y EXCEPT !.at = "title"]
      [] x.at = "title" ->
            IF out = "reject" THEN [y EXCEPT !.at = "returned", !.result = outerCatch]
            ELSE [y EXCEPT !.at = "aria",
                           !.title = IF out = "timeout" THEN "Loading..." ELSE "title"]
      [] x.at = "aria" ->
            IF out = "ok" THEN [y EXCEPT !.at = "scroll", !.tree = "aria"]
            ELSE [y EXCEPT !.at = "fallback"]
      [] x.at = "fallback" ->
            IF out = "reject" THEN [y EXCEPT !.at = "returned", !.result = outerCatch]
            ELSE [y EXCEPT !.at = "scroll",
                           !.tree = IF out = "timeout" THEN "[Page content unavailable]"
                                    ELSE "fallback"]
      [] x.at = "scroll" ->
            IF out = "reject" THEN [y EXCEPT !.at = "returned", !.result = outerCatch]
            ELSE [y EXCEPT !.at = "returned", !.result = "Page:",
                           !.scrollInfo = IF out = "timeout" THEN "Scroll: unknown"
                                          ELSE "Scroll:"]

-----------------------------------------------------------------------------
(* The environment: what the LLM, the pages and the user may answer *)

Scroll == [name |-> "scroll", args |-> Args(TRUE, {"down"}, NoSummary, 20)]
ClickA == [name |-> "click", args |-> Args(TRUE, {"button", "Next"}, NoSummary, 28)]
ClickB == [name |-> "click", args |-> Args(TRUE, {"link", "Home"}, NoSummary, 26)]
ClickDelete == [name |-> "click", args |-> Args(TRUE, {"button", "Delete"}, NoSummary, 30)]
ClickBad == [name |-> "click", args |-> Args(FALSE, {"button"}, NoSummary, 12)]
DoneOk == [name |-> "done", args |-> Args(TRUE, {"s1"}, "s1", 40)]
DoneEmpty == [name |-> "done", args |-> Args(TRUE, {}, "", 14)]
DoneNone == [name |-> "done", args |-> Args(TRUE, {}, NoSummary, 2)]
DoneBad == [name |-> "done", args |-> Args(FALSE, {"s1"}, NoSummary, 9)]

\* Responses of llm.chat.  Tool calls are given without ids; ids are
\* attached when the response is received.
CallsResponse(calls) ==
    [content |-> "null", hasQuestion |-> FALSE, hasKeyword |-> FALSE,
     toolCalls |-> calls, finishReason |-> "tool_calls", throws |-> FALSE]
TextResponse(q, kw, fr) ==
    [content |-> "text", hasQuestion |-> q, hasKeyword |-> kw,
     toolCalls |-> <<>>, finishReason |-> fr, throws |-> FALSE]
EmptyResponse ==
    [content |-> "null", hasQuestion |-> FALSE, hasKeyword |-> FALSE,
     toolCalls |-> <<>>, finishReason |-> "stop", throws |-> FALSE]
ThrowResponse ==
    [content |-> "null", hasQuestion |-> FALSE, hasKeyword |-> FALSE,
     toolCalls |-> <<>>, finishReason |-> "null", throws |-> TRUE]

FinalResponses ==
    {CallsResponse(<<c>>) : c \in {DoneOk, DoneEmpty, DoneNone, DoneBad}}
    \cup {[CallsResponse(<<c>>) EXCEPT !.content = "text"] : c \in {DoneOk, DoneNone}}
    \cup {TextResponse(FALSE, FALSE, "stop"), EmptyResponse, ThrowResponse}

Environment(name, iters, responses, urls, obsLens, answers, tabsAfter) ==
    [name |-> name, iters |-> iters, responses |-> responses,
     finalResponses |-> FinalResponses, urls |-> urls, obsLens |-> obsLens,
     answers |-> answers, tabsAfter |-> tabsAfter]

\* Loop detection: one call per turn, two pages.
EnvStuck ==
    Environment("stuck", StuckIters,
                {CallsResponse(<<c>>) : c \in {ClickA, ClickB, DoneOk}},
                {"u1", "u2"}, {400}, {Answer(<<"y">>)}, {1})

\* Context window: several calls per turn, long and short observations,
\* text-only turns, empty responses and transport errors.
EnvCtx ==
    Environment("ctx", CtxIters,
                {CallsResponse([i \in 1..k |-> Scroll]) : k \in {1, CtxCalls}}
                \cup {TextResponse(TRUE, FALSE, "stop"), EmptyResponse, ThrowResponse},
                {"u1"}, {400, 24000}, {Answer(<<"y">>)}, {1})

\* Security: destructive and harmless calls, every answer of the user.
EnvGuard ==
    Environment("guard", GuardIters,
                {CallsResponse(<<c>>) : c \in {ClickDelete, ClickA, ClickBad, Scroll, DoneOk, DoneNone}}
                \cup {CallsResponse(cs) : cs \in {<<ClickDelete, ClickA>>, <<DoneNone, ClickA>>,
                                                  <<DoneOk, ClickA>>, <<Scroll, DoneEmpty>>}},
                {"u1", "checkout"}, {400}, {Answer(<<"y">>), Answer(<<"Y", "e", "s">>), Answer(<<"n">>), Answer(<<>>), Rejects},
                {0, 1, 2})

\* Oscillation: two different calls per turn, two pages.
EnvOsc ==
    Environment("osc", OscIters,
                {CallsResponse(<<ClickA, ClickB>>)},
                {"u1", "u2"}, {400}, {Answer(<<"y">>)}, {1})

\* Text-only turns: every kind of text the loop tells apart, and a tool call.
EnvText ==
    Environment("text", TextIters,
                {TextResponse(q, kw, fr) : q \in BOOLEAN, kw \in BOOLEAN,
                                           fr \in {"stop", "length"}}
                \cup {CallsResponse(<<Scroll>>)},
                {"u1"}, {400}, {Answer(<<"y">>)}, {1})

\* Termination: every way an iteration can end (tool calls, done, a nudged
\* text, an empty response, a transport error, the last page closed).
EnvLive ==
    Environment("live", LiveIters,
                {CallsResponse(<<Scroll>>), CallsResponse(<<DoneOk>>),
                 TextResponse(TRUE, FALSE, "stop"), EmptyResponse, ThrowResponse},
                {"u1"}, {400}, {Answer(<<"y">>)}, {0, 1})

\* A long run of calls that are never flagged: two actions taken in turn on
\* one page, four calls per turn.
EnvRing ==
    Environment("ring", RingIters,
                {CallsResponse(<<ClickA, ClickB, ClickA, ClickB>>)},
                {"u1"}, {400}, {Answer(<<"y">>)}, {1})

Environments == {EnvStuck, EnvCtx, EnvGuard, EnvOsc, EnvText, EnvLive, EnvRing}

\* The environment of the current behaviour
E == CHOOSE e \in Environments : e.name = env

\* `${title} (${url})` as getPageContextForSecurity builds it
ContextWords(u) == IF u = "checkout" THEN {"Checkout", "checkout"} ELSE {"Inbox", u}

WithIds(calls, it) == [i \in 1..Len(calls) |-> ToolCall(10 * it + i, calls[i].name, calls[i].args)]

\* What a step did: the tool call it handled (0 when none) and, for an
\* executed call, what execute did and returned.
Trace(step, call, ex) == [step |-> step, call |-> call, ex |-> ex]

NoExec == ExecResult(Undefined, FALSE, NoSummary, FALSE, FALSE, FALSE, "none", FALSE)

Step(step) == Trace(step, 0, NoExec)

NoChat == [last |-> SystemMessage, tools |-> "none"]

\* Pages of the persistent browser context when the first task is given:
\* launch makes sure there is at least one, the profile may hold more.
PagesAtLaunch(e) == IF e = "live" THEN {1, 2} ELSE {1}

-----------------------------------------------------------------------------
(* BrowserAgent *)

Init ==
    /\ env \in {e.name : e \in Environments}
    /\ maxIterations = E.iters
    /\ pc = "idle"
    /\ iteration = 0
    /\ isDone = FALSE
    /\ summary = ""
    /\ consecutiveFailures = 0
    /\ textOnlyRetries = 0
    /\ recentActions = <<>>
    /\ messages = <<>>
    /\ actionHistory = <<>>
    /\ response = NoResponse
    /\ callIdx = 0
    /\ tabs \in PagesAtLaunch(env)
    /\ url \in E.urls
    /\ llmCalls = 0
    /\ lastChat = NoChat
    /\ returned = "pending"
    /\ trace = Step("init")
    /\ stuckIn = <<>>
    /\ guardIn = <<>>
    /\ actIn = <<>>
    /\ truncIn = <<>>
    /\ extIn = <<>>
    /\ selIn = <<>>

fnVars == <<stuckIn, guardIn, actIn, truncIn, extIn, selIn>>

\* run(task), up to the first iteration: setTask and the locals.  The agent
\* is given its first task, or another one after a run returned; the caller
\* starts a run only while the browser has an open page.
Run ==
    /\ pc = "idle" \/ (pc = "returned" /\ tabs > 0)
    /\ isDone' = FALSE
    /\ summary' = ""
    /\ messages' = setTask(messages, actionHistory).messages
    /\ actionHistory' = setTask(messages, actionHistory).actionHistory
    /\ consecutiveFailures' = 0
    /\ textOnlyRetries' = 0
    /\ recentActions' = <<>>
    /\ iteration' = 1
    /\ response' = NoResponse
    /\ callIdx' = 0
    /\ llmCalls' = 0
    /\ returned' = "pending"
    /\ pc' = "loop"
    /\ trace' = Step(IF pc = "idle" THEN "run" ELSE "run again")
    /\ UNCHANGED <<env, maxIterations, tabs, url, lastChat, fnVars>>

\* Mutant: the loop goes on to the observation whatever pages are open.
LoopHeadNoRecovery ==
    /\ pc = "loop"
    /\ IF iteration > maxIterations \/ isDone
       THEN pc' = "after" /\ returned' = returned
       ELSE pc' = "observe" /\ returned' = returned
    /\ trace' = Step("loop")
    /\ UNCHANGED <<env, maxIterations, iteration, isDone, summary, consecutiveFailures,
                   textOnlyRetries, recentActions, messages, actionHistory, response,
                   callIdx, tabs, url, llmCalls, lastChat, fnVars>>

\* Loop condition, the isDone break and stale-page recovery.
LoopHead ==
    /\ pc = "loop"
    /\ IF iteration > maxIterations \/ isDone
       THEN pc' = "after" /\ returned' = returned
       ELSE IF tabs = 0
       THEN pc' = "returned" /\ returned' = "Task aborted: Browser windows closed."
       ELSE pc' = "observe" /\ returned' = returned
    /\ trace' = Step("loop")
    /\ UNCHANGED <<env, maxIterations, iteration, isDone, summary, consecutiveFailures,
                   textOnlyRetries, recentActions, messages, actionHistory, response,
                   callIdx, tabs, url, llmCalls, lastChat, fnVars>>

\* extract, formatObservation, addObservation
Observe ==
    /\ pc = "observe"
    /\ \E len \in E.obsLens :
         messages' = addObservation(messages, Msg("user", "obs", iteration, len, <<>>, 0))
    /\ pc' = "think"
    /\ trace' = Step("observe")
    /\ UNCHANGED <<env, maxIterations, iteration, isDone, summary, consecutiveFailures,
                   textOnlyRetries, recentActions, actionHistory, response, callIdx,
                   tabs, url, llmCalls, lastChat, returned, fnVars>>

Last(s) == s[Len(s)]

\* llm.chat(getMessages(), getDefinitions())
Think ==
    /\ pc = "think"
    /\ llmCalls' = llmCalls + 1
    /\ lastChat' = [last |-> Last(getMessages(messages, actionHistory)), tools |-> "all"]
    /\ \E r \in E.responses :
         IF r.throws
         THEN pc' = "catch" /\ response' = NoResponse
         ELSE pc' = "act" /\ response' = [r EXCEPT !.toolCalls = WithIds(r.toolCalls, iteration)]
    /\ trace' = Step("think")
    /\ UNCHANGED <<env, maxIterations, iteration, isDone, summary, consecutiveFailures,
                   textOnlyRetries, recentActions, messages, actionHistory, callIdx,
                   tabs, url, returned, fnVars>>

NextIteration == iteration' = iteration + 1 /\ pc' = "loop"

\* Tool-call branch: textOnlyRetries = 0 and addAssistantMessage(content, toolCalls)
ActToolCalls ==
    /\ pc = "act"
    /\ Len(response.toolCalls) > 0
    /\ textOnlyRetries' = 0
    /\ messages' = addAssistantMessage(messages, 0, response.toolCalls)
    /\ callIdx' = 1
    /\ pc' = "calls"
    /\ trace' = Step("assistant")
    /\ UNCHANGED <<env, maxIterations, iteration, isDone, summary, consecutiveFailures,
                   recentActions, actionHistory, response, tabs, url, llmCalls, lastChat,
                   returned, fnVars>>

Nudge == Msg("user", "nudge", 0, 180, <<>>, 0)

\* Mutant: the nudge after a text with a question mark repeats the iteration.
ActTextOnlyRepeats ==
    /\ pc = "act"
    /\ Len(response.toolCalls) = 0
    /\ response.content # "null"
    /\ LET withAssistant == addAssistantMessage(messages, 200, <<>>) IN
       IF response.hasQuestion /\ textOnlyRetries < MaxTextOnlyRetries
       THEN /\ textOnlyRetries' = textOnlyRetries + 1
            /\ messages' = addObservation(withAssistant, Nudge)
            /\ iteration' = iteration
            /\ pc' = "loop"
            /\ UNCHANGED <<isDone, summary>>
       ELSE IF response.finishReason = "stop" /\ response.hasKeyword
       THEN /\ isDone' = TRUE
            /\ summary' = response.content
            /\ messages' = withAssistant
            /\ NextIteration
            /\ UNCHANGED textOnlyRetries
       ELSE IF textOnlyRetries < MaxTextOnlyRetries
       THEN /\ textOnlyRetries' = textOnlyRetries + 1
            /\ messages' = addObservation(withAssistant, Nudge)
            /\ NextIteration
            /\ UNCHANGED <<isDone, summary>>
       ELSE /\ messages' = withAssistant
            /\ NextIteration
            /\ UNCHANGED <<isDone, summary, textOnlyRetries>>
    /\ trace' = Step("text")
    /\ UNCHANGED <<env, maxIterations, consecutiveFailures, recentActions, actionHistory,
                   response, callIdx, tabs, url, llmCalls, lastChat, returned, fnVars>>

\* Mutant: a text that is not accepted is nudged however many nudges there were.
ActTextOnlyNoCap ==
    /\ pc = "act"
    /\ Len(response.toolCalls) = 0
    /\ response.content # "null"
    /\ LET withAssistant == addAssistantMessage(messages, 200, <<>>) IN
       IF response.hasQuestion
       THEN /\ textOnlyRetries' = textOnlyRetries + 1
            /\ messages' = addObservation(withAssistant, Nudge)
            /\ UNCHANGED <<isDone, summary>>
       ELSE IF response.finishReason = "stop" /\ response.hasKeyword
       THEN /\ isDone' = TRUE
            /\ summary' = response.content
            /\ messages' = withAssistant
            /\ UNCHANGED textOnlyRetries
       ELSE /\ textOnlyRetries' = textOnlyRetries + 1
            /\ messages' = addObservation(withAssistant, Nudge)
            /\ UNCHANGED <<isDone, summary>>
    /\ NextIteration
    /\ trace' = Step("text")
    /\ UNCHANGED <<env, maxIterations, consecutiveFailures, recentActions, actionHistory,
                   response, callIdx, tabs, url, llmCalls, lastChat, returned, fnVars>>

\* Mutant: the completion words are looked for before the question mark.
ActTextOnlyAcceptFirst ==
    /\ pc = "act"
    /\ Len(response.toolCalls) = 0
    /\ response.content # "null"
    /\ LET withAssistant == addAssistantMessage(messages, 200, <<>>) IN
       IF response.finishReason = "stop" /\ response.hasKeyword
       THEN /\ isDone' = TRUE
            /\ summary' = response.content
            /\ messages' = withAssistant
            /\ UNCHANGED textOnlyRetries
       ELSE IF textOnlyRetries < MaxTextOnlyRetries
       THEN /\ textOnlyRetries' = textOnlyRetries + 1
            /\ messages' = addObservation(withAssistant, Nudge)
            /\ UNCHANGED <<isDone, summary>>
       ELSE /\ messages' = withAssistant
            /\ UNCHANGED <<isDone, summary, textOnlyRetries>>
    /\ NextIteration
    /\ trace' = Step("text")
    /\ UNCHANGED <<env, maxIterations, consecutiveFailures, recentActions, actionHistory,
                   response, callIdx, tabs, url, llmCalls, lastChat, returned, fnVars>>

\* Text-only branch
ActTextOnly ==
    /\ pc = "act"
    /\ Len(response.toolCalls) = 0
    /\ response.content # "null"
    /\ LET withAssistant == addAssistantMessage(messages, 200, <<>>) IN
       IF response.hasQuestion /\ textOnlyRetries < MaxTextOnlyRetries
       THEN /\ textOnlyRetries' = textOnlyRetries + 1
            /\ messages' = addObservation(withAssistant, Nudge)
            /\ UNCHANGED <<isDone, summary>>
       ELSE IF response.finishReason = "stop" /\ response.hasKeyword
       THEN /\ isDone' = TRUE
            /\ summary' = response.content
            /\ messages' = withAssistant
            /\ UNCHANGED textOnlyRetries
       ELSE IF textOnlyRetries < MaxTextOnlyRetries
       THEN /\ textOnlyRetries' = textOnlyRetries + 1
            /\ messages' = addObservation(withAssistant, Nudge)
            /\ UNCHANGED <<isDone, summary>>
       ELSE /\ messages' = withAssistant
            /\ UNCHANGED <<isDone, summary, textOnlyRetries>>
    /\ NextIteration
    /\ trace' = Step("text")
    /\ UNCHANGED <<env, maxIterations, consecutiveFailures, recentActions, actionHistory,
                   response, callIdx, tabs, url, llmCalls, lastChat, returned, fnVars>>

\* Empty response
ActEmpty ==
    /\ pc = "act"
    /\ Len(response.toolCalls) = 0
    /\ response.content = "null"
    /\ consecutiveFailures' = consecutiveFailures + 1
    /\ NextIteration
    /\ trace' = Step("empty")
    /\ UNCHANGED <<env, maxIterations, isDone, summary, textOnlyRetries, recentActions,
                   messages, actionHistory, response, callIdx, tabs, url, llmCalls,
                   lastChat, returned, fnVars>>

\* Mutant: the tool calls are taken from the end of the list.
CurrentCallBackwards == response.toolCalls[Len(response.toolCalls) - callIdx + 1]

\* for (const toolCall of response.toolCalls)
CurrentCall == response.toolCalls[callIdx]

StuckMsg == Result(TRUE, "stuck", 190)

\* Mutant: the flagged call is recorded in RecentActions before it is skipped.
CallStuckRecords ==
    /\ pc = "calls"
    /\ callIdx <= Len(response.toolCalls)
    /\ isStuck(recentActions, toolDesc(CurrentCall), url)
    /\ recentActions' = pushRecent(recentActions, Entry(toolDesc(CurrentCall), url))
    /\ messages' = Append(messages, ToolResultMessage(CurrentCall, StuckMsg))
    /\ actionHistory' = Append(actionHistory, ActionHistoryEntry(CurrentCall, StuckMsg))
    /\ callIdx' = callIdx + 1
    /\ trace' = Trace("stuck", CurrentCall.id, NoExec)
    /\ UNCHANGED <<env, maxIterations, pc, iteration, isDone, summary, consecutiveFailures,
                   textOnlyRetries, response, tabs, url, llmCalls, lastChat,
                   returned, fnVars>>

\* A tool call flagged by isStuck: the warning is its tool result.
CallStuck ==
    /\ pc = "calls"
    /\ callIdx <= Len(response.toolCalls)
    /\ isStuck(recentActions, toolDesc(CurrentCall), url)
    /\ messages' = Append(messages, ToolResultMessage(CurrentCall, StuckMsg))
    /\ actionHistory' = Append(actionHistory, ActionHistoryEntry(CurrentCall, StuckMsg))
    /\ callIdx' = callIdx + 1
    /\ trace' = Trace("stuck", CurrentCall.id, NoExec)
    /\ UNCHANGED <<env, maxIterations, pc, iteration, isDone, summary, consecutiveFailures,
                   textOnlyRetries, recentActions, response, tabs, url, llmCalls, lastChat,
                   returned, fnVars>>

\* A tool call that is not flagged: recorded, executed, the page reference
\* refreshed, its result added; done ends the loop.
CallExecute ==
    /\ pc = "calls"
    /\ callIdx <= Len(response.toolCalls)
    /\ ~isStuck(recentActions, toolDesc(CurrentCall), url)
    /\ recentActions' = pushRecent(recentActions, Entry(toolDesc(CurrentCall), url))
    /\ \E answer \in E.answers, len \in {50}, newUrl \in E.urls, newTabs \in E.tabsAfter :
         LET ex == execute(CurrentCall, ContextWords(url), answer, len)
             ran == ex.allowed
         IN
         /\ (~ex.asked => answer = CHOOSE a \in E.answers : TRUE)
         /\ (~ran => newUrl = url /\ newTabs = tabs)
         /\ trace' = Trace("execute", CurrentCall.id, ex)
         /\ IF ex.throws
            THEN /\ pc' = "catch"
                 /\ UNCHANGED <<messages, actionHistory, isDone, summary, callIdx,
                                consecutiveFailures, iteration, tabs, url>>
            ELSE /\ tabs' = IF newTabs > 1 THEN 1 ELSE newTabs
                 /\ url' = IF newTabs = 0 THEN url ELSE newUrl
                 /\ messages' = Append(messages, ToolResultMessage(CurrentCall, ex.result))
                 /\ IF addToolResultThrows(ex.result)
                    THEN /\ pc' = "catch"
                         /\ UNCHANGED <<actionHistory, isDone, summary, callIdx,
                                        consecutiveFailures, iteration>>
                    ELSE /\ actionHistory' =
                              Append(actionHistory, ActionHistoryEntry(CurrentCall, ex.result))
                         /\ IF ex.isDone
                            THEN /\ isDone' = TRUE
                                 /\ summary' = IF ex.doneSummary = "" THEN "Task completed"
                                               ELSE ex.doneSummary
                                 /\ consecutiveFailures' = 0
                                 /\ NextIteration
                                 /\ UNCHANGED callIdx
                            ELSE /\ callIdx' = callIdx + 1
                                 /\ UNCHANGED <<pc, iteration, isDone, summary,
                                                consecutiveFailures>>
    /\ UNCHANGED <<env, maxIterations, textOnlyRetries, response, llmCalls, lastChat,
                   returned, fnVars>>

\* The for loop over the tool calls ran to its end.
EndCalls ==
    /\ pc = "calls"
    /\ callIdx > Len(response.toolCalls)
    /\ consecutiveFailures' = 0
    /\ NextIteration
    /\ trace' = Step("endcalls")
    /\ UNCHANGED <<env, maxIterations, isDone, summary, textOnlyRetries, recentActions,
                   messages, actionHistory, response, callIdx, tabs, url, llmCalls,
                   lastChat, returned, fnVars>>

\* catch (error)
Catch ==
    /\ pc = "catch"
    /\ consecutiveFailures' = consecutiveFailures + 1
    /\ messages' = removeLastObservation(messages)
    /\ IF consecutiveFailures + 1 > MaxConsecutiveFailures
       THEN summary' = "Task failed: Too many consecutive errors." /\ isDone' = TRUE
       ELSE UNCHANGED <<summary, isDone>>
    /\ NextIteration
    /\ trace' = Step("catch")
    /\ UNCHANGED <<env, maxIterations, textOnlyRetries, recentActions, actionHistory,
                   response, callIdx, tabs, url, llmCalls, lastChat, returned, fnVars>>

FinalPrompt == Msg("user", "final", 0, 460, <<>>, 0)

CannedLine == "Task incomplete: reached N iterations. Re-run to continue."

\* Mutant: the assistant text is returned when the tool call has no summary.
finalSummaryTextFirst(r) ==
    IF r.throws THEN CannedLine
    ELSE IF Len(r.toolCalls) > 0 /\ ~r.toolCalls[1].args.valid THEN CannedLine
    ELSE IF Len(r.toolCalls) > 0 /\ r.toolCalls[1].args.summary \notin {NoSummary, ""}
    THEN r.toolCalls[1].args.summary
    ELSE IF r.content # "null" THEN r.content
    ELSE IF Len(r.toolCalls) > 0 THEN "Task incomplete - max iterations reached."
    ELSE CannedLine

\* Mutant: the summary argument of the tool call is never used.
finalSummaryIgnoresArgs(r) ==
    IF r.throws THEN CannedLine
    ELSE IF Len(r.toolCalls) > 0 THEN "Task incomplete - max iterations reached."
    ELSE IF r.content # "null" THEN r.content
    ELSE CannedLine

\* What generateFinalSummary returns for the response r.
finalSummaryOf(r) ==
    IF r.throws THEN CannedLine
    ELSE IF Len(r.toolCalls) > 0
    THEN LET args == r.toolCalls[1].args IN
         IF ~args.valid THEN CannedLine
         ELSE IF args.summary \in {NoSummary, ""}
         THEN "Task incomplete - max iterations reached."
         ELSE args.summary
    ELSE IF r.content # "null" THEN r.content
    ELSE CannedLine

\* if (!this.isDone) this.summary = await this.generateFinalSummary(task)
GenerateFinalSummary ==
    /\ pc = "after"
    /\ ~isDone
    /\ llmCalls' = llmCalls + 1
    /\ lastChat' = [last |-> Last(Append(getMessages(messages, actionHistory), FinalPrompt)),
                    tools |-> "done_only"]
    /\ \E r \in E.finalResponses :
         /\ response' = IF r.throws THEN NoResponse ELSE r
         /\ summary' = finalSummaryOf(r)
         /\ returned' = finalSummaryOf(r)
    /\ pc' = "returned"
    /\ trace' = Step("final")
    /\ UNCHANGED <<env, maxIterations, iteration, isDone, consecutiveFailures,
                   textOnlyRetries, recentActions, messages, actionHistory, callIdx, tabs,
                   url, fnVars>>

\* return this.summary
Return ==
    /\ pc = "after"
    /\ isDone
    /\ returned' = summary
    /\ pc' = "returned"
    /\ trace' = Step("return")
    /\ UNCHANGED <<env, maxIterations, iteration, isDone, summary, consecutiveFailures,
                   textOnlyRetries, recentActions, messages, actionHistory, response,
                   callIdx, tabs, url, llmCalls, lastChat, fnVars>>

Next ==
    \/ Run
    \/ LoopHead
    \/ Observe
    \/ Think
    \/ ActToolCalls
    \/ ActTextOnly
    \/ ActEmpty
    \/ CallStuck
    \/ CallExecute
    \/ EndCalls
    \/ Catch
    \/ GenerateFinalSummary
    \/ Return

Spec == Init /\ [][Next]_vars

-----------------------------------------------------------------------------
(* isStuck and checkAction as functions of their arguments *)

\* The agent's variables while only a function is evaluated
Parked ==
    /\ env = "stuck"
    /\ maxIterations = E.iters
    /\ pc = "fn"
    /\ iteration = 0
    /\ isDone = FALSE
    /\ summary = ""
    /\ consecutiveFailures = 0
    /\ textOnlyRetries = 0
    /\ recentActions = <<>>
    /\ messages = <<>>
    /\ actionHistory = <<>>
    /\ response = NoResponse
    /\ callIdx = 0
    /\ tabs = 1
    /\ url = "u1"
    /\ llmCalls = 0
    /\ lastChat = NoChat
    /\ returned = "pending"
    /\ trace = Step("init")

runVars == <<env, maxIterations, pc, iteration, isDone, summary, consecutiveFailures,
             textOnlyRetries, recentActions, messages, actionHistory, response, callIdx,
             tabs, url, llmCalls, lastChat, returned, trace>>

\* Entries of RecentActions: two actions at one page and one at another.
StuckEntries ==
    {Entry(toolDesc(ClickA), "u1"), Entry(toolDesc(ClickB), "u1"), Entry(toolDesc(ClickA), "u2")}

\* RecentActions holds at most RecentActionsSize entries when isStuck is called.
StuckLens == 0..(IF StuckLen > RecentActionsSize THEN RecentActionsSize ELSE StuckLen)

InitStuck ==
    /\ Parked
    /\ selIn = <<>>
    /\ guardIn = <<>>
    /\ actIn = <<>>
    /\ truncIn = <<>>
    /\ extIn = <<>>
    /\ \E n \in StuckLens : \E recent \in [1..n -> StuckEntries] : \E e \in StuckEntries :
         stuckIn = [recent |-> recent, action |-> e.action, url |-> e.url,
                    evaluated |-> FALSE, result |-> FALSE]

EvalStuck ==
    /\ ~stuckIn.evaluated
    /\ stuckIn' = [stuckIn EXCEPT !.evaluated = TRUE,
                                  !.result = isStuck(stuckIn.recent, stuckIn.action, stuckIn.url)]
    /\ UNCHANGED <<runVars, guardIn, actIn, truncIn, extIn, selIn>>

SpecStuck == InitStuck /\ [][EvalStuck]_vars

GuardTools == KnownTools \cup {"screenshot"}

GuardWords == {{}, {"button", "Next"}, {"button", "Delete"}, {"Enter"}, {"payment"},
               {"design"}, {"Checkout"}}

GuardContexts == {{"Inbox", "u1"}, {"Checkout", "checkout"}, {"unknown page"},
                  {"delete account", "settings"}}

GuardAnswers == {Answer(<<"y">>), Answer(<<"Y", "e", "s">>), Answer(<<"n">>),
                 Answer(<<"N", "o">>), Answer(<<>>), Rejects}

NoCheck == [allowed |-> FALSE, asked |-> FALSE, throws |-> FALSE]

InitGuard ==
    /\ Parked
    /\ selIn = <<>>
    /\ stuckIn = <<>>
    /\ actIn = <<>>
    /\ truncIn = <<>>
    /\ extIn = <<>>
    /\ \E name \in GuardTools, words \in GuardWords, valid \in BOOLEAN,
          ctx \in GuardContexts, answer \in GuardAnswers :
         guardIn = [call |-> ToolCall(1, name, Args(valid, words, NoSummary, 20)),
                    context |-> ctx, answer |-> answer,
                    evaluated |-> FALSE, result |-> NoCheck]

EvalGuard ==
    /\ ~guardIn.evaluated
    /\ guardIn' = [guardIn EXCEPT !.evaluated = TRUE,
                                  !.result = checkAction(guardIn.call, guardIn.context,
                                                         guardIn.answer)]
    /\ UNCHANGED <<runVars, stuckIn, actIn, truncIn, extIn, selIn>>

SpecGuard == InitGuard /\ [][EvalGuard]_vars

\* BrowserActions as functions of their arguments and of the driver's behaviour

Urls ==
    {<<>>, <<"a">>, <<"/", "/", "a">>, <<"h", "t", "t", "p">>,
     <<"h", "t", "t", "p", ":", "/">>, <<"h", "t", "t", "p", "s", ":", "/">>,
     SchemeHttp, SchemeHttps, SchemeHttp \o <<"a">>, SchemeHttps \o <<"a">>,
     <<"H", "T", "T", "P", ":", "/", "/", "a">>, <<"f", "t", "p", ":", "/", "/", "a">>,
     <<" ">> \o SchemeHttp \o <<"a">>, <<"a">> \o SchemeHttps}

Selectors == {Selector(FALSE, FALSE), Selector(FALSE, TRUE), Selector(TRUE, FALSE)}

NoSelector == Selector(FALSE, FALSE)

Outcomes == {"ok", "error"}

FirstOutcomes == {"ok", "strict mode violation", "Timeout", "error"}

\* The driver behaviours that make a difference to the operation op
Drivers(op) ==
    CASE op = "click" ->
            {Driver(f, a, r, e, l, m, n) : f \in FirstOutcomes, a \in Outcomes, r \in Outcomes,
                                           e \in Outcomes, l \in Outcomes, m \in BOOLEAN,
                                           n \in BOOLEAN}
      [] op \in {"type", "hover"} ->
            {Driver(f, "ok", r, "ok", "ok", FALSE, FALSE) : f \in FirstOutcomes, r \in Outcomes}
      [] op = "goBack" ->
            {Driver(f, a, "ok", "ok", "ok", m, FALSE) : f \in Outcomes, a \in Outcomes,
                                                        m \in BOOLEAN}
      [] op \in {"navigate", "scroll", "pressKey"} ->
            {Driver(f, a, "ok", "ok", "ok", FALSE, FALSE) : f \in FirstOutcomes \ {"strict mode violation"},
                                                            a \in Outcomes}
      [] OTHER ->
            {Driver(f, "ok", "ok", "ok", "ok", FALSE, FALSE) : f \in FirstOutcomes \ {"strict mode violation"}}

\* Durations in milliseconds as the wait tool may receive them
Durations == {-1, 0, 1, 500, WaitCap - 1, WaitCap, WaitCap + 1, 2 * WaitCap, 60000}

ActionInput(op, u, sel, ms, d) ==
    [op |-> op, url |-> u, selector |-> sel, ms |-> ms, driver |-> d, evaluated |-> FALSE,
     result |-> Said("none")]

ActionInputs ==
    UNION {{ActionInput(op, u, sel, ms, d) :
               u \in IF op = "navigate" THEN Urls ELSE {NoUrl},
               sel \in IF op \in {"click", "type", "selectOption", "hover"}
                       THEN Selectors ELSE {NoSelector},
               ms \in IF op = "wait" THEN Durations ELSE {0},
               d \in Drivers(op)} : op \in Operations}

InitActions ==
    /\ Parked
    /\ selIn = <<>>
    /\ stuckIn = <<>>
    /\ guardIn = <<>>
    /\ truncIn = <<>>
    /\ extIn = <<>>
    /\ actIn \in ActionInputs

EvalAction ==
    /\ ~actIn.evaluated
    /\ actIn' = [actIn EXCEPT !.evaluated = TRUE,
                              !.result = perform(actIn.op, actIn.url, actIn.selector,
                                                 actIn.ms, actIn.driver)]
    /\ UNCHANGED <<runVars, stuckIn, guardIn, truncIn, extIn, selIn>>

SpecActions == InitActions /\ [][EvalAction]_vars

\* resolveLocator as a function of the selector

\* Pieces selectors are put together from: words, a path, the characters
\* the tests look for and the prefix of a list item
Pieces ==
    {<<"R", "O", "O", "T">>, <<"r", "o", "o", "t">>, <<"D">>, <<">">>, <<" ">>, <<"1">>,
     <<"-", " ">>, <<"x", ">", " ", "x">>}

RECURSIVE Concat(_)
Concat(ps) == IF ps = <<>> THEN <<>> ELSE Head(ps) \o Concat(Tail(ps))

\* The selectors put together from at most `most` pieces
SelectorStrings(most) == UNION {{Concat(ps) : ps \in [1..n -> Pieces]} : n \in 0..most}

InitLocator ==
    /\ Parked
    /\ stuckIn = <<>>
    /\ guardIn = <<>>
    /\ actIn = <<>>
    /\ truncIn = <<>>
    /\ extIn = <<>>
    /\ \E sel \in SelectorStrings(MaxTokens) :
         selIn = [selector |-> sel, evaluated |-> FALSE,
                  result |-> [throws |-> FALSE, error |-> "none", locatorCalls |-> 0]]

EvalLocator ==
    /\ ~selIn.evaluated
    /\ selIn' = [selIn EXCEPT !.evaluated = TRUE, !.result = resolveLocator(selIn.selector)]
    /\ UNCHANGED <<runVars, stuckIn, guardIn, actIn, truncIn, extIn>>

SpecLocator == InitLocator /\ [][EvalLocator]_vars

\* truncateToTokenBudget as a function of the text and the token budget

LineLens == {0, 1, 30, 50, 100}

Budgets == {0, 10, 25, 30}

Texts == UNION {[1..n -> LineLens] : n \in 1..MaxLines}

InitTrunc ==
    /\ Parked
    /\ selIn = <<>>
    /\ stuckIn = <<>>
    /\ guardIn = <<>>
    /\ actIn = <<>>
    /\ extIn = <<>>
    /\ \E content \in Texts, budget \in Budgets :
         truncIn = [content |-> content, budget |-> budget, evaluated |-> FALSE,
                    result |-> Truncated(<<0>>, FALSE)]

EvalTrunc ==
    /\ ~truncIn.evaluated
    /\ truncIn' = [truncIn EXCEPT !.evaluated = TRUE,
                                  !.result = truncateToTokenBudget(truncIn.content,
                                                                   truncIn.budget)]
    /\ UNCHANGED <<runVars, stuckIn, guardIn, actIn, extIn, selIn>>

SpecTrunc == InitTrunc /\ [][EvalTrunc]_vars

\* extract, one driver step at a time

InitExtract ==
    /\ Parked
    /\ selIn = <<>>
    /\ stuckIn = <<>>
    /\ guardIn = <<>>
    /\ actIn = <<>>
    /\ truncIn = <<>>
    /\ extIn = Extracting

\* The driver call of the current step is issued.
ExtStart ==
    /\ extIn.at # "returned"
    /\ ~extIn.started
    /\ extIn' = [extIn EXCEPT !.started = TRUE]
    /\ UNCHANGED <<runVars, stuckIn, guardIn, actIn, truncIn, selIn>>

\* The race of the current step settles.
ExtAwait ==
    /\ extIn.at # "returned"
    /\ extIn.started
    /\ \E out \in StepOutcomes(extIn.at) : extIn' = extractNext(extIn, out)
    /\ UNCHANGED <<runVars, stuckIn, guardIn, actIn, truncIn, selIn>>

\* A driver call that lost its race completes.
ExtSettle ==
    /\ \E op \in extIn.pending : extIn' = [extIn EXCEPT !.pending = extIn.pending \ {op}]
    /\ UNCHANGED <<runVars, stuckIn, guardIn, actIn, truncIn, selIn>>

NextExtract ==
    \/ ExtStart
    \/ ExtAwait
    \/ ExtSettle

SpecExtract == InitExtract /\ [][NextExtract]_vars

-----------------------------------------------------------------------------
(* Properties *)

\* Every tool message of `list` has a strictly earlier assistant message
\* whose tool_calls include its tool_call_id.
WellFormed(list) ==
    \A i \in 1..Len(list) :
        list[i].role = "tool" =>
            \E j \in 1..(i - 1) :
                /\ list[j].role = "assistant"
                /\ \E k \in 1..Len(list[j].calls) : list[j].calls[k].id = list[i].id

\* C1: in every state of a run, every ToolResult message of the list
\* getMessages() returns has a strictly earlier Assistant message in that
\* list whose tool_calls include its tool_call_id.
C1_WindowWellFormed == WellFormed(getMessages(messages, actionHistory))

\* A chat is about to be issued from a log longer than the window whose
\* target start is a tool message.
C1_Witness ==
    /\ pc = "think"
    /\ Len(messages) > maxHistoryMessages
    /\ messages[Len(messages) - maxHistoryMessages + 1].role = "tool"

AnswersTo(msgs, i, id) == {j \in (i + 1)..Len(msgs) : msgs[j].role = "tool" /\ msgs[j].id = id}

AllAnswered(msgs) ==
    \A i \in 1..Len(msgs) : \A k \in 1..Len(msgs[i].calls) :
        Cardinality(AnswersTo(msgs, i, msgs[i].calls[k].id)) = 1

\* C2: when the next Assistant message is about to be appended, every
\* ToolCall id carried by an Assistant message of the log has been answered
\* by exactly one ToolResult message, on every path through the loop.
C2_EveryCallAnswered ==
    (pc = "act" /\ (Len(response.toolCalls) > 0 \/ response.content # "null"))
        => AllAnswered(messages)

\* The done calls of a response whose arguments are valid JSON with a
\* non-empty summary.
DoneCalls(r) ==
    {k \in 1..Len(r.toolCalls) :
        /\ r.toolCalls[k].name = "done"
        /\ r.toolCalls[k].args.valid
        /\ r.toolCalls[k].args.summary \notin {NoSummary, ""}}

FirstDone(r) == r.toolCalls[CHOOSE k \in DoneCalls(r) : \A m \in DoneCalls(r) : k <= m]

\* C3: when the response acted upon in an iteration contains a done call
\* (here: one with valid arguments and a non-empty summary), the iteration
\* ends with isDone set and the summary equal to that call's summary
\* argument, whatever RecentActions and the current URL are.
C3_DoneTerminatesRun ==
    (pc = "loop" /\ DoneCalls(response) # {})
        => (isDone /\ summary = FirstDone(response).args.summary)

FinalStep == pc = "after" /\ ~isDone

\* C4 as stated: when the loop ends without isDone, one more LLM call is
\* made with only the done tool and the maximum-iterations prompt last, and
\* run returns the summary field of the tool call of that response.
C4_ReturnsSummaryField ==
    [][FinalStep =>
        /\ llmCalls' = llmCalls + 1
        /\ lastChat'.tools = "done_only"
        /\ lastChat'.last = FinalPrompt
        /\ pc' = "returned"
        /\ (Len(response'.toolCalls) > 0
              => returned' = response'.toolCalls[1].args.summary)]_vars

\* C4 amended: when the loop ends without isDone, exactly one more LLM call
\* is made, with only the done tool and the maximum-iterations prompt last,
\* run returns, and it returns the summary field of the first tool call of
\* that response when that call's arguments are valid JSON with a non-empty
\* summary.
C4_FinalSummaryCall ==
    [][FinalStep =>
        /\ llmCalls' = llmCalls + 1
        /\ lastChat'.tools = "done_only"
        /\ lastChat'.last = FinalPrompt
        /\ pc' = "returned"
        /\ ((/\ Len(response'.toolCalls) > 0
             /\ response'.toolCalls[1].args.valid
             /\ response'.toolCalls[1].args.summary \notin {NoSummary, ""})
              => returned' = response'.toolCalls[1].args.summary)]_vars

\* The run returned the summary of the done call of the final-summary response.
C4_Witness ==
    /\ pc = "returned"
    /\ trace.step = "final"
    /\ iteration = maxIterations + 1
    /\ Len(response.toolCalls) > 0
    /\ returned = "s1"

NoTriple(r) == \A i \in 1..(Len(r) - 2) : ~(r[i] = r[i + 1] /\ r[i + 1] = r[i + 2])

LastTwoAre(r, e) == Len(r) >= 2 /\ r[Len(r)] = e /\ r[Len(r) - 1] = e

Proposing == pc = "calls" /\ callIdx <= Len(response.toolCalls)

\* C5: whenever the last two RecentActions entries both equal the proposed
\* (action descriptor, URL) pair, isStuck returns true for the proposal; and
\* RecentActions never holds three consecutive identical entries.
C5_ExactRepetition ==
    /\ NoTriple(recentActions)
    /\ (Proposing /\ LastTwoAre(recentActions, Entry(toolDesc(CurrentCall), url)))
         => isStuck(recentActions, toolDesc(CurrentCall), url)

\* A call is proposed for the third time in a row at the same URL.
C5_Witness ==
    /\ Proposing
    /\ LastTwoAre(recentActions, Entry(toolDesc(CurrentCall), url))

\* Number of visits to u in all: indices whose entry is at u and that are
\* first or follow an entry at another URL.
Visits(all, u) ==
    Cardinality({i \in 1..Len(all) : all[i].url = u /\ (i = 1 \/ all[i - 1].url # u)})

StuckAll == Append(stuckIn.recent, Entry(stuckIn.action, stuckIn.url))

\* C6: for every RecentActions content and proposal, isStuck returns true
\* whenever recentActions ++ [proposed] holds at least 3 visits to the
\* proposed url, and when the last two entries are not both the proposal it
\* returns true only in that case.
C6_Oscillation ==
    stuckIn.evaluated =>
        /\ (Visits(StuckAll, stuckIn.url) >= 3 => stuckIn.result)
        /\ (~LastTwoAre(stuckIn.recent, Entry(stuckIn.action, stuckIn.url))
              => (stuckIn.result => Visits(StuckAll, stuckIn.url) >= 3))

\* isStuck was evaluated on a third visit to a URL that is no exact
\* repetition, and returned true.
C6_Witness ==
    /\ stuckIn.evaluated
    /\ Visits(StuckAll, stuckIn.url) >= 3
    /\ ~LastTwoAre(stuckIn.recent, Entry(stuckIn.action, stuckIn.url))
    /\ stuckIn.result

\* C7: when isStuck flags a tool call, the step appends exactly one
\* ToolResult (the repetition warning) for that call, runs neither the
\* executor, the guard nor a browser operation, and leaves RecentActions
\* (and the page) unchanged.
C7_StuckSkipsExecution ==
    [][(Proposing /\ isStuck(recentActions, toolDesc(CurrentCall), url)) =>
        /\ messages' = Append(messages, Msg("tool", "stuck", 0, 190, <<>>, CurrentCall.id))
        /\ recentActions' = recentActions
        /\ trace'.step = "stuck"
        /\ trace'.call = CurrentCall.id
        /\ trace'.ex = NoExec
        /\ tabs' = tabs
        /\ url' = url]_vars

\* A call was skipped as stuck while RecentActions was not empty.
C7_Witness == trace.step = "stuck" /\ Len(recentActions) >= 2 /\ Last(messages).kind = "stuck"

\* C8: a tool call is skipped as stuck only when its action descriptor is
\* already recorded in RecentActions at the current URL.
C8_OnlyRepeatedActionsFlagged ==
    trace.step = "stuck" =>
        \E i \in 1..Len(recentActions) :
            recentActions[i] = Entry(toolDesc(response.toolCalls[callIdx - 1]), url)

MetaToolNames ==
    {"read_page", "scroll", "wait", "ask_user", "done", "hover", "go_back", "navigate"}

\* C9: for every tool call whose name is one of read_page, scroll, wait,
\* ask_user, done, hover, go_back, navigate, and every arguments string and
\* page context, checkAction returns true and does not invoke the confirm
\* callback.
C9_MetaToolsApproved ==
    (guardIn.evaluated /\ guardIn.call.name \in MetaToolNames)
        => (guardIn.result.allowed /\ ~guardIn.result.asked /\ ~guardIn.result.throws)

\* checkAction was evaluated for a meta-tool whose arguments name a deletion
\* on a checkout page, with a user who would refuse.
C9_Witness ==
    /\ guardIn.evaluated
    /\ guardIn.call.name = "navigate"
    /\ guardIn.call.args.words = {"button", "Delete"}
    /\ guardIn.context = {"Checkout", "checkout"}
    /\ guardIn.answer = Answer(<<"n">>)

\* C10: execute dispatches no BrowserActions operation unless checkAction
\* was called and returned true; when the user denies a call classified
\* destructive, execute returns the blocked sentence with isDone false, no
\* operation is dispatched, the sentence becomes the call's ToolResult and
\* the loop goes on to the next call.
C10_NoActionWithoutApproval ==
    trace.step = "execute" =>
        /\ (trace.ex.op # "none" => (trace.ex.guard /\ trace.ex.allowed))
        /\ (trace.ex.asked /\ ~trace.ex.allowed /\ ~trace.ex.throws) =>
             /\ trace.ex.result = Result(TRUE, "blocked", 86)
             /\ ~trace.ex.isDone
             /\ trace.ex.op = "none"
             /\ ~isDone
             /\ pc = "calls"
             /\ returned = "pending"
             /\ Last(messages).kind = "blocked"
             /\ Last(messages).id = trace.call

\* A destructive click was denied by the user.
C10_Witness ==
    /\ trace.step = "execute"
    /\ trace.ex.asked
    /\ ~trace.ex.allowed
    /\ ~trace.ex.throws
    /\ Last(messages).kind = "blocked"

\* C11: every BrowserActions operation returns an outcome string whatever
\* the driver does and whatever selector it is given; none throws to its
\* caller.
C11_OperationsNeverThrow == actIn.evaluated => ~actIn.result.throws

\* C12: extract resolves to a string (the page description or the narrated
\* error) and never rejects, whatever way its driver steps succeed, time out
\* or reject.
C12_ExtractResolves ==
    extIn.at = "returned" => extIn.result \in {"Page:", "Error extracting page content"}

\* extract returned the narrated error after a step rejected while an
\* earlier step that had timed out was still running.
C12_Witness ==
    /\ extIn.at = "returned"
    /\ extIn.result = "Error extracting page content"
    /\ extIn.pending # {}

\* C13: the text truncateToTokenBudget returns, truncation sentinel
\* included, is at most tokenBudget * 4 characters long.
C13_SnapshotBudget ==
    truncIn.evaluated => OutLen(truncIn.result) <= truncIn.budget * 4

\* The texts made of the first k lines of content, for k below the number of
\* its lines (k = 0 is the empty text).
CompleteLines(content) == {<<0>>} \cup {SubSeq(content, 1, k) : k \in 1..(Len(content) - 1)}

TooLong == truncIn.evaluated /\ TextLen(truncIn.content) > truncIn.budget * 4

NewlineAt(content, k) == SumLens(SubSeq(content, 1, k)) + k - 1

\* a is the text of the first characters of b
IsPrefixText(a, b) ==
    /\ Len(a) <= Len(b)
    /\ \A i \in 1..(Len(a) - 1) : a[i] = b[i]
    /\ a[Len(a)] <= b[Len(a)]

C15_FailedObservationRemoved ==
    [][(pc = "catch" /\ trace.step = "think") =>
        /\ Last(messages).kind = "obs"
        /\ Last(messages).step = iteration
        /\ messages' = SubSeq(messages, 1, Len(messages) - 1)
        /\ \A i \in 1..Len(messages') :
             ~(messages'[i].kind = "obs" /\ messages'[i].step = iteration)
        /\ pc' = "loop"
        /\ iteration' = iteration + 1]_vars

\* The handler ran after a failed LLM call while the log held earlier messages.
C15_Witness ==
    /\ trace.step = "catch"
    /\ response = NoResponse
    /\ Len(messages) >= 3

\* C16: when more than 3 iterations in a row have failed (here: every
\* iteration so far, each by throwing or by an empty response), the run is
\* aborted with the summary 'Task failed: Too many consecutive errors.'.
C16_AbortAfterFailures ==
    (/\ pc = "loop"
     /\ consecutiveFailures > MaxConsecutiveFailures
     /\ iteration = consecutiveFailures + 1)
        => (isDone /\ summary = "Task failed: Too many consecutive errors.")

NoPageAtStart == pc = "loop" /\ iteration <= maxIterations /\ ~isDone /\ tabs = 0

Aborted == returned = "Task aborted: Browser windows closed."

\* C17: when an iteration starts while the browser has no open page, run
\* returns 'Task aborted: Browser windows closed.' without a snapshot, a new
\* message or an LLM call, and nothing happens after that return.
C17_AbortWithoutPages ==
    [][/\ NoPageAtStart =>
            /\ returned' = "Task aborted: Browser windows closed."
            /\ pc' = "returned"
            /\ messages' = messages
            /\ actionHistory' = actionHistory
            /\ llmCalls' = llmCalls
            /\ trace'.step = "loop"
       /\ Aborted => FALSE]_vars

\* The run was aborted because the last page was closed by a tool call.
C17_Witness == Aborted /\ pc = "returned" /\ llmCalls >= 1 /\ trace.step = "loop"

\* C18 as stated: the final-summary call returns the summary argument of the
\* response's tool call when it is present, else the assistant text when it
\* is present, else the canned 'reached N iterations' line.
C18_SummaryThenTextThenCanned ==
    [][FinalStep =>
        returned' =
            IF /\ Len(response'.toolCalls) > 0
               /\ response'.toolCalls[1].args.summary # NoSummary
            THEN response'.toolCalls[1].args.summary
            ELSE IF response'.content # "null" THEN response'.content
            ELSE CannedLine]_vars

\* C18 amended: when the response has a tool call, the final-summary call
\* returns its summary argument if that is a non-empty string, the line
\* 'Task incomplete - max iterations reached.' if the summary is missing or
\* empty, and the canned 'reached N iterations' line if the arguments are
\* not valid JSON; when the response has no tool call it returns the
\* assistant text if there is one and the canned line otherwise.
C18_FinalSummaryCases ==
    [][FinalStep =>
        LET r == response' IN
        IF Len(r.toolCalls) > 0
        THEN \/ /\ ~r.toolCalls[1].args.valid
                /\ returned' = CannedLine
             \/ /\ r.toolCalls[1].args.valid
                /\ r.toolCalls[1].args.summary \in {NoSummary, ""}
                /\ returned' = "Task incomplete - max iterations reached."
             \/ /\ r.toolCalls[1].args.valid
                /\ r.toolCalls[1].args.summary \notin {NoSummary, ""}
                /\ returned' = r.toolCalls[1].args.summary
        ELSE \/ r.content # "null" /\ returned' = r.content
             \/ r.content = "null" /\ returned' = CannedLine]_vars

\* The final response carried both a text and a done call without summary.
C18_Witness ==
    /\ pc = "returned"
    /\ trace.step = "final"
    /\ Len(response.toolCalls) > 0
    /\ response.content = "text"
    /\ response.toolCalls[1].args.summary = NoSummary
    /\ returned = "Task incomplete - max iterations reached."

\* The driver calls of extract that are running
InFlight == extIn.pending \cup (IF extIn.started THEN {extIn.at} ELSE {})

\* C19: at every moment at most one driver operation issued by the agent is
\* in flight, operations whose result was replaced by a soft-timeout
\* fallback included.
C19_OneInFlight == Cardinality(InFlight) <= 1

HasScheme(u) ==
    \/ Len(u) >= 7 /\ [i \in 1..7 |-> u[i]] = <<"h", "t", "t", "p", ":", "/", "/">>
    \/ Len(u) >= 8 /\ [i \in 1..8 |-> u[i]] = <<"h", "t", "t", "p", "s", ":", "/", "/">>

\* C20: navigate hands page.goto 'https://' followed by the unchanged url
\* when the url starts with neither 'http://' nor 'https://', and the url
\* itself otherwise; a successful result names the URL handed to page.goto.
C20_SchemeAugmentation ==
    (actIn.evaluated /\ actIn.op = "navigate") =>
        /\ actIn.result.goto =
              IF HasScheme(actIn.url) THEN actIn.url
              ELSE <<"h", "t", "t", "p", "s", ":", "/", "/">> \o actIn.url
        /\ actIn.result.text = "Navigated to" => actIn.result.named = actIn.result.goto

\* navigate succeeded on a url that starts with a part of a scheme only.
C20_Witness ==
    /\ actIn.evaluated
    /\ actIn.op = "navigate"
    /\ actIn.url = <<"h", "t", "t", "p", ":", "/">>
    /\ actIn.result.text = "Navigated to"
    /\ Len(actIn.result.goto) = 14

\* C21: for every ms passed to wait, the duration handed to the driver's
\* sleep is the smaller of ms and 10000, and the result string reports that
\* same value.
C21_WaitClamp ==
    (actIn.evaluated /\ actIn.op = "wait") =>
        /\ actIn.result.slept = (IF actIn.ms <= 10000 THEN actIn.ms ELSE 10000)
        /\ ~actIn.result.throws =>
              (actIn.result.text = "Waited" /\ actIn.result.reported = actIn.result.slept)

\* wait returned after it was asked for more than the cap.
C21_Witness ==
    /\ actIn.evaluated
    /\ actIn.op = "wait"
    /\ actIn.ms > 10000
    /\ actIn.result.text = "Waited"
    /\ actIn.result.reported = 10000

\* The selector contains ROOT, whatever the case of its letters.
ContainsRoot(s) ==
    \E i \in 1..(Len(s) - 3) :
        <<UpperChar(s[i]), UpperChar(s[i + 1]), UpperChar(s[i + 2]), UpperChar(s[i + 3])>>
            = <<"R", "O", "O", "T">>

IsUpperLetter(c) == c \in {"R", "O", "T", "D", "X"}

\* First index from i on whose character is no upper-case letter, no letter,
\* no blank
RECURSIVE SkipUpper(_, _)
SkipUpper(s, i) == IF i <= Len(s) /\ IsUpperLetter(s[i]) THEN SkipUpper(s, i + 1) ELSE i

RECURSIVE SkipLetters(_, _)
SkipLetters(s, i) == IF i <= Len(s) /\ IsLetter(s[i]) THEN SkipLetters(s, i + 1) ELSE i

RECURSIVE SkipBlanks(_, _)
SkipBlanks(s, i) == IF i <= Len(s) /\ IsBlank(s[i]) THEN SkipBlanks(s, i + 1) ELSE i

\* The selector matches ^[A-Z]+\s*>\s*[A-Z]+.*\d
MatchesPathThenDigit(s) ==
    LET gt == SkipBlanks(s, SkipUpper(s, 1))
        second == SkipBlanks(s, gt + 1)
    IN /\ SkipUpper(s, 1) > 1
       /\ gt <= Len(s) /\ s[gt] = ">"
       /\ second <= Len(s) /\ IsUpperLetter(s[second])
       /\ \E d \in (second + 1)..Len(s) : IsDigit(s[d])

WordsOf(s) ==
    {w \in (1..Len(s)) \X (1..Len(s)) :
        /\ w[1] <= w[2]
        /\ \A k \in w[1]..w[2] : IsWordChar(s[k])
        /\ (w[1] = 1 \/ ~IsWordChar(s[w[1] - 1]))
        /\ (w[2] = Len(s) \/ ~IsWordChar(s[w[2] + 1]))}

RootIsWord(s) ==
    \E w \in WordsOf(s) :
        [k \in 1..(w[2] - w[1] + 1) |-> UpperChar(s[w[1] + k - 1])] = <<"R", "O", "O", "T">>

NumberIsWord(s) == \E w \in WordsOf(s) : \A k \in w[1]..w[2] : IsDigit(s[k])

\* The selector begins with letters, '>' and a letter, blanks allowed around '>'.
BeginsAsPath(s) ==
    LET gt == SkipBlanks(s, SkipLetters(s, 1))
        second == SkipBlanks(s, gt + 1)
    IN /\ SkipLetters(s, 1) > 1
       /\ gt <= Len(s) /\ s[gt] = ">"
       /\ second <= Len(s) /\ IsLetter(s[second])

C23_RunStartsFresh ==
    [][(pc = "idle" \/ pc = "returned") =>
        /\ pc' = "loop"
        /\ iteration' = 1
        /\ messages' = <<>>
        /\ actionHistory' = <<>>
        /\ recentActions' = <<>>
        /\ ~isDone'
        /\ consecutiveFailures' = 0
        /\ textOnlyRetries' = 0
        /\ <<SystemMessage>> = getMessages(messages', actionHistory')]_vars

\* A run started after a run that had ended at the iteration ceiling with a
\* final-summary call.
C23_Witness ==
    /\ trace.step = "run again"
    /\ lastChat.tools = "done_only"
    /\ pc = "loop"
    /\ messages = <<>>

\* C24: after an iteration in which the LLM returned an empty response (no
\* content, no tool calls), the observation appended in that iteration is no
\* longer in the message log when the next iteration starts.
C24_EmptyResponseRewound ==
    trace.step = "empty" =>
        \A i \in 1..Len(messages) :
            ~(messages[i].kind = "obs" /\ messages[i].step = iteration - 1)

\* C25: after a tool call has been skipped as stuck, a tool call proposed
\* next (here: the next call of the same response) with a different action
\* descriptor, while the page URL is unchanged, is executed and not skipped.
C25_StuckDoesNotPersist ==
    [][(/\ trace.step = "stuck"
        /\ Proposing
        /\ toolDesc(CurrentCall) # toolDesc(response.toolCalls[callIdx - 1]))
          => (trace'.step = "execute" /\ trace'.call = CurrentCall.id)]_vars

AllAtProposedUrl == \A i \in 1..Len(stuckIn.recent) : stuckIn.recent[i].url = stuckIn.url

\* C26: when every entry of RecentActions has the URL of the current page,
\* a proposed tool call is flagged stuck only when the last two entries both
\* carry exactly the proposed action descriptor: differing actions on one
\* unchanged URL, however many, are not flagged.
C26_OneUrlOnlyRepetition ==
    (stuckIn.evaluated /\ AllAtProposedUrl /\ stuckIn.result) =>
        /\ Len(stuckIn.recent) >= 2
        /\ stuckIn.recent[Len(stuckIn.recent)].action = stuckIn.action
        /\ stuckIn.recent[Len(stuckIn.recent) - 1].action = stuckIn.action

\* A full window of alternating actions at one URL was not flagged.
C26_Witness ==
    /\ stuckIn.evaluated
    /\ AllAtProposedUrl
    /\ Len(stuckIn.recent) = RecentActionsSize
    /\ \A i \in 1..(Len(stuckIn.recent) - 1) :
         stuckIn.recent[i].action # stuckIn.recent[i + 1].action
    /\ ~stuckIn.result

\* The tool message at index p of msgs belongs to the run of tool messages
\* that directly follows an assistant message, and that run answers the
\* assistant's tool calls in their order.
InCallOrder(msgs, p) ==
    \E i \in 1..(p - 1) :
        /\ msgs[i].role = "assistant"
        /\ p - i <= Len(msgs[i].calls)
        /\ \A q \in (i + 1)..p : msgs[q].role = "tool" /\ msgs[q].id = msgs[i].calls[q - i].id

\* C27: the tool calls of one Assistant response are processed one at a time
\* in list order: while call k is the next one, the log ends with the
\* Assistant message followed by the ToolResults of calls 1..k-1 in that
\* order; and in the whole log every ToolResult stands in the run of
\* ToolResults right after its Assistant message, in the order of the
\* ToolCalls, with no other message in between.
C27_ResultsInCallOrder ==
    /\ \A p \in 1..Len(messages) : messages[p].role = "tool" => InCallOrder(messages, p)
    /\ pc = "calls" =>
         /\ Len(messages) >= callIdx
         /\ messages[Len(messages) - callIdx + 1].role = "assistant"
         /\ messages[Len(messages) - callIdx + 1].calls = response.toolCalls
         /\ \A k \in 1..(callIdx - 1) :
              /\ messages[Len(messages) - callIdx + 1 + k].role = "tool"
              /\ messages[Len(messages) - callIdx + 1 + k].id = response.toolCalls[k].id

\* Three calls of one response were handled, the last one skipped as stuck.
C27_Witness ==
    /\ pc = "calls"
    /\ callIdx = 4
    /\ trace.step = "stuck"
    /\ Len(actionHistory) > 3

IsObservationOf(m, it) == m.role = "user" /\ m.kind = "obs" /\ m.step = it

\* C28: every LLM call of the main loop is given a list whose last message
\* is the observation appended in the same iteration, after compression and
\* windowing; and when an Assistant message is appended, the message right
\* before it in the log is that User message.
C28_ObservationPrecedesAssistant ==
    [][/\ pc = "think" =>
            /\ IsObservationOf(lastChat'.last, iteration)
            /\ lastChat'.last = Last(messages)
            /\ lastChat'.tools = "all"
       /\ (pc = "act" /\ pc' # "act" /\ Len(response.toolCalls) > 0) =>
            /\ Last(messages').role = "assistant"
            /\ Len(messages') >= 2
            /\ IsObservationOf(messages'[Len(messages') - 1], iteration)
       /\ (pc = "act" /\ pc' # "act" /\ Len(response.toolCalls) = 0
           /\ response.content # "null") =>
            \E k \in 2..Len(messages') :
                /\ messages'[k].role = "assistant"
                /\ IsObservationOf(messages'[k - 1], iteration)
                /\ \A j \in (k + 1)..Len(messages') : messages'[j].kind = "nudge"]_vars

\* The LLM was called on a log that compression had just cut and whose
\* history summary is not empty.
C28_Witness ==
    /\ pc = "act"
    /\ trace.step = "think"
    /\ Len(actionHistory) > 0
    /\ Len(messages) > 1
    /\ messages[1].role = "assistant"
    /\ lastChat.last = Last(messages)

\* The nudges of the log that follow its last Assistant message with tool
\* calls (all its nudges when there is none)
NudgesSinceCalls(msgs) ==
    LET withCalls == {i \in 1..Len(msgs) : msgs[i].role = "assistant" /\ Len(msgs[i].calls) > 0}
        from == IF withCalls = {} THEN 0
                ELSE CHOOSE i \in withCalls : \A j \in withCalls : j <= i
    IN {i \in (from + 1)..Len(msgs) : msgs[i].kind = "nudge"}

TextOnlyStep == pc = "act" /\ Len(response.toolCalls) = 0 /\ response.content # "null"

\* C29: textOnlyRetries never exceeds 2; a response that carries tool calls
\* sets it to 0; a nudge is appended only while it is below 2 and raises it
\* by one, so the log holds at most two nudges after its last tool-call
\* response; and the nudged iteration is used up: the next one has the next
\* number.
C29_NudgesCapped ==
    /\ [](textOnlyRetries \in 0..2 /\ Cardinality(NudgesSinceCalls(messages)) <= textOnlyRetries)
    /\ [][/\ (pc = "act" /\ Len(response.toolCalls) > 0) => textOnlyRetries' = 0
          /\ (TextOnlyStep /\ Last(messages').kind = "nudge") =>
                /\ textOnlyRetries < 2
                /\ textOnlyRetries' = textOnlyRetries + 1
                /\ iteration' = iteration + 1
                /\ pc' = "loop"
          /\ (TextOnlyStep /\ Last(messages').kind # "nudge") =>
                textOnlyRetries' = textOnlyRetries
          /\ (pc \notin {"act", "idle", "returned"}) => textOnlyRetries' = textOnlyRetries]_vars

\* A third text in a row was answered without a nudge.
C29_Witness ==
    /\ trace.step = "text"
    /\ textOnlyRetries = 2
    /\ Cardinality(NudgesSinceCalls(messages)) = 2
    /\ Last(messages).role = "assistant"
    /\ ~isDone

\* Whether the text-only response being acted upon is one the claim says
\* ends the run
Acceptable ==
    /\ response.finishReason = "stop"
    /\ response.hasKeyword
    /\ ~(response.hasQuestion /\ textOnlyRetries < 2)

\* C30: a text-only response ends the run with its text as the summary if
\* and only if its finish reason is 'stop', the text contains one of the
\* completion words and it is not the case that it contains '?' while
\* textOnlyRetries < 2; a text with '?' while textOnlyRetries < 2 is nudged
\* and not accepted.
C30_TextAcceptance ==
    [][TextOnlyStep =>
        /\ Acceptable <=> (isDone' /\ summary' = response.content)
        /\ ~Acceptable => (~isDone' /\ summary' = summary)
        /\ (response.hasQuestion /\ textOnlyRetries < 2) =>
              (~isDone' /\ Last(messages').kind = "nudge")]_vars

\* A text with a question mark and a completion word was accepted after two
\* nudges, and the run returned it.
C30_Witness ==
    /\ pc = "returned"
    /\ trace.step = "return"
    /\ response.hasQuestion
    /\ response.hasKeyword
    /\ textOnlyRetries = 2
    /\ returned = "text"

-----------------------------------------------------------------------------
(* Failure counting *)

\* C31: an iteration in which the model answered with text or with tool
\* calls resets the failure count, so that 'Task failed: Too many
\* consecutive errors.' is returned only after four failed iterations in a
\* row.
C31_AnswersResetFailures ==
    [][(pc \in {"act", "calls"} /\ pc' = "loop" /\ trace'.step \in {"text", "endcalls", "execute"})
          => consecutiveFailures' = 0]_vars

-----------------------------------------------------------------------------
(* Compression *)

\* A step in which addObservation is called: the observation of an
\* iteration, or the nudge after a text-only response.
AddsObservation ==
    \/ pc = "observe" /\ pc' = "think"
    \/ pc = "act" /\ trace'.step = "text" /\ Last(messages').kind = "nudge"

\* The raw log right after addObservation pushed its User message
Pushed ==
    IF pc = "observe" THEN Append(messages, Last(messages'))
    ELSE Append(addAssistantMessage(messages, 200, <<>>), Last(messages'))

\* C32: whenever the estimated token count of the raw log exceeds
\* tokenBudget after addObservation appended its User message,
\* addObservation drops older messages from the raw log, whatever the
\* number of messages in the log.
C32_OverBudgetDropsMessages ==
    [][(AddsObservation /\ estimateTokens(Pushed) > tokenBudget)
          => Len(messages') < Len(Pushed)]_vars

-----------------------------------------------------------------------------
(* Termination *)

\* The environments termination is checked in
LiveEnvs == {"live", "text", "osc"}

InitLive == Init /\ env \in LiveEnvs

\* Every external call (extract, llm.chat, execute, the user's answer)
\* returns: a step of run that can be taken is taken.
SpecLive == InitLive /\ [][Next]_vars /\ WF_vars(Next)

Running == pc \notin {"idle", "returned"}

\* C33: the main loop performs at most maxIterations iterations, each with
\* at most one LLM call (a nudged iteration is not repeated), followed by at
\* most one final-summary call: a run makes at most maxIterations + 1 LLM
\* calls, and a run that started returns.
C33_RunTerminates ==
    /\ [](/\ iteration <= maxIterations + 1
          /\ llmCalls <= maxIterations + 1
          /\ pc \in {"loop", "observe", "think"} => llmCalls <= iteration - 1
          /\ pc \in {"act", "calls", "catch"} => llmCalls <= iteration
          /\ pc = "after" => llmCalls <= maxIterations)
    /\ (Running ~> pc = "returned")

\* A run of maxIterations iterations ended with the final-summary call.
C33_Witness ==
    /\ pc = "returned"
    /\ trace.step = "final"
    /\ iteration = maxIterations + 1
    /\ llmCalls = maxIterations + 1

-----------------------------------------------------------------------------
(* Pages *)

\* C34: whenever a snapshot is about to be extracted, every non-closed page
\* other than the latest one has been closed: the browser context holds at
\* most one non-closed page.
C34_OnePageWhenObserving == pc = "observe" => tabs <= 1

-----------------------------------------------------------------------------
(* RecentActions *)

\* C35: RecentActions never holds more than 10 entries; an entry is appended
\* only for a tool call that was not flagged stuck, and the oldest entry is
\* evicted whenever the length would exceed 10.
C35_RecentActionsBounded ==
    /\ [](Len(recentActions) <= RecentActionsSize)
    /\ [][(pc = "calls" /\ trace'.step = "execute") =>
            /\ ~isStuck(recentActions, toolDesc(CurrentCall), url)
            /\ recentActions' =
                 (IF Len(recentActions) = RecentActionsSize
                  THEN Tail(recentActions) ELSE recentActions)
                 \o <<Entry(toolDesc(CurrentCall), url)>>]_vars
    /\ [][(trace'.step \notin {"execute", "run", "run again"}) =>
            recentActions' = recentActions]_vars

\* The eleventh executed call of a run: RecentActions is full and its oldest
\* entry was evicted.
C35_Witness ==
    /\ trace.step = "execute"
    /\ Len(recentActions) = RecentActionsSize
    /\ Len(actionHistory) > RecentActionsSize
    /\ recentActions[1].action = toolDesc(ClickB)

-----------------------------------------------------------------------------
(* Confirmation *)

\* The user's answer begins with 'y' or 'Y'.
BeginsWithY(answer) ==
    ~answer.rejects /\ answer.text # <<>> /\ Head(answer.text) \in {"y", "Y"}

\* C36: for a tool call that is not a meta-tool, checkAction invokes the
\* confirm callback (at its one call site) when the call is classified
\* destructive and not at all otherwise, and returns true if and only if the
\* call is not classified destructive or the user's answer begins with 'y'
\* or 'Y'.
C36_ConfirmWhenDestructive ==
    (guardIn.evaluated /\ guardIn.call.name \notin MetaToolNames) =>
        LET destructive == isDestructiveAction(guardIn.call.name, guardIn.call.args.words,
                                               guardIn.context)
            returnsTrue == guardIn.result.allowed /\ ~guardIn.result.throws
        IN
        /\ guardIn.result.asked <=> destructive
        /\ returnsTrue <=> (~destructive \/ BeginsWithY(guardIn.answer))

\* press_key with Enter, classified destructive by the tool pattern, was
\* allowed by a user who answered 'Yes'.
C36_Witness ==
    /\ guardIn.evaluated
    /\ guardIn.call.name = "press_key"
    /\ guardIn.call.args.words = {"Enter"}
    /\ guardIn.answer = Answer(<<"Y", "e", "s">>)
    /\ guardIn.result.asked
    /\ guardIn.result.allowed

-----------------------------------------------------------------------------
(* The text extract returns *)

\* C37: for every combination of outcomes of the driver steps (success,
\* soft-timeout expiry or rejection), extract returns the text 'Page:
\* <title>', 'URL: <url>', '<scroll-info>', blank line, 'Accessibility
\* Tree:', '<tree>', with the documented fallback value in the place of each
\* step that did not succeed.
C37_SnapshotForm ==
    extIn.at = "returned" =>
        /\ extIn.result = "Page:"
        /\ extIn.title \in {"title", "Loading..."}
        /\ extIn.tree \in {"aria", "fallback", "[Page content unavailable]"}
        /\ extIn.scrollInfo \in {"Scroll:", "Scroll: unknown"}

-----------------------------------------------------------------------------
(* Clicks delivered *)

\* C38 as stated: a single click(selector) call delivers at most one click
\* to the target element, whichever path it takes.
C38_AtMostOneClick ==
    (actIn.evaluated /\ actIn.op = "click") => actIn.result.clicks <= 1

\* C38: a single click(selector) call delivers at most two clicks to the
\* target element, and two only in the Timeout escalation when the
\* dispatched click event left the URL unchanged (the in-page click, or the
\* first-match dispatch when that threw, is delivered as well); every other
\* path delivers at most one.
C38_AtMostTwoClicks ==
    (actIn.evaluated /\ actIn.op = "click") =>
        /\ actIn.result.clicks <= 2
        /\ actIn.result.clicks = 2 =>
              /\ actIn.driver.first = "Timeout"
              /\ actIn.driver.retry = "ok"
              /\ ~actIn.driver.moved

\* The first click timed out, the dispatched event and then the in-page
\* click were delivered to a button and the URL did not change.
C38_Witness ==
    /\ actIn.evaluated
    /\ actIn.op = "click"
    /\ actIn.result.clicks = 2
    /\ actIn.result.text = "Clicked (dispatchEvent on button)"

-----------------------------------------------------------------------------
(* The window of getMessages *)

\* The messages getMessages places after the system message and the summary
WindowOf(list, hist) ==
    SubSeq(list, IF Len(hist) > 0 THEN 3 ELSE 2, Len(list))

\* w is the last maxHistoryMessages messages of msgs, extended backward only
\* over the tool messages at the target start and the first message before
\* them that is not one.
IsSafeWindow(w, msgs) ==
    LET target == Len(msgs) - maxHistoryMessages + 1
        start == Len(msgs) - Len(w) + 1
    IN
    /\ Len(w) >= maxHistoryMessages
    /\ Len(w) <= Len(msgs)
    /\ w = SubSeq(msgs, start, Len(msgs))
    /\ \A i \in (start + 1)..target : msgs[i].role = "tool"
    /\ msgs[start].role = "tool" => start = 1

\* C39: whenever getMessages is called (before llm.chat in the loop and in
\* generateFinalSummary), when the raw log holds more than
\* maxHistoryMessages messages the window in getMessages is the last
\* maxHistoryMessages raw messages extended backward only over the
\* ToolResult messages at the target start and the first non-ToolResult
\* message before them (it begins with a ToolResult only if the log does);
\* otherwise it is the whole raw log; and getMessages never alters the raw
\* log.
C39_WindowIsSafeSuffix ==
    /\ [](pc \in {"think", "after"} =>
            LET w == WindowOf(getMessages(messages, actionHistory), actionHistory) IN
            IF Len(messages) > maxHistoryMessages
            THEN IsSafeWindow(w, messages)
            ELSE w = messages)
    /\ [][(pc \in {"think", "after"}) =>
             (messages' = messages /\ actionHistory' = actionHistory)]_vars

\* A chat is about to be issued from a log longer than the window whose
\* target start is a tool message: the window is extended backward to the
\* assistant message before it.
C39_Witness ==
    /\ pc = "think"
    /\ Len(messages) > maxHistoryMessages
    /\ messages[Len(messages) - maxHistoryMessages + 1].role = "tool"
    /\ Len(WindowOf(getMessages(messages, actionHistory), actionHistory)) > maxHistoryMessages

-----------------------------------------------------------------------------
(* ActionHistory *)

\* A step that appends a ToolResult message to the raw log
AppendsToolResult ==
    /\ Len(messages') = Len(messages) + 1
    /\ Last(messages').role = "tool"

\* getMessages holds the ActionHistory User message
HasSummary(list) == Len(list) >= 2 /\ list[2].kind = "summary"

\* C40: ActionHistory grows by exactly one entry per ToolResult appended
\* (executed, blocked or stuck-skipped call) and is not trimmed during a run;
\* the ActionHistory User message is in getMessages exactly when a
\* ToolResult has been recorded since setTask, and it lists every such
\* result, those still inside the window included.
C40_HistoryMatchesToolResults ==
    /\ [][AppendsToolResult =>
            (/\ Len(actionHistory') = Len(actionHistory) + 1
             /\ Last(actionHistory').id = Last(messages').id
             /\ SubSeq(actionHistory', 1, Len(actionHistory)) = actionHistory)]_vars
    /\ [][(~AppendsToolResult /\ trace'.step \notin {"run", "run again"}) =>
            actionHistory' = actionHistory]_vars
    /\ [](HasSummary(getMessages(messages, actionHistory)) <=> Len(actionHistory) > 0)
    /\ []((\E i \in 1..Len(messages) : messages[i].role = "tool") => Len(actionHistory) > 0)

====
